---- MODULE Spec2Model ----
(***************************************************************************)
(* A model of the urbrs renderer: the frame ring driven by                 *)
(* Renderer::render (urbrs/src/renderer.rs), the application life cycle    *)
(* around it (urbrs/src/main.rs, urbrs/src/window.rs), the ownership graph *)
(* that decides the teardown order, and the Buffer / DepthBuffer memory    *)
(* operations (urbrs/src/vulkan/buffer.rs).                                *)
(*                                                                         *)
(* The GPU is a second process: it retires the submissions of the graphics *)
(* queue in order and signals the fence handed to each submission.         *)
(***************************************************************************)
EXTENDS Integers, Sequences, FiniteSets, TLC

\* ------------------------------------------------------------------------
\* Program constants and model bounds
\* ------------------------------------------------------------------------

\* renderer.rs:320  const FRAMES_IN_FLIGHT: usize = 3;
FRAMES_IN_FLIGHT == 3

\* Number of images in the swapchain (decided by the driver at run time).
NumImages == 2

Slots == 0 .. (FRAMES_IN_FLIGHT - 1)
Images == 0 .. (NumImages - 1)

Range(s) == { s[i] : i \in 1 .. Len(s) }

\* ------------------------------------------------------------------------
\* State
\* ------------------------------------------------------------------------
VARIABLES
    app,            \* position of the application: start, running, exiting,
                    \* panic, dropping, exited, aborted
    alive,          \* objects constructed and not yet dropped
    dropq,          \* objects still to be dropped by the running teardown
    drop_log,       \* objects dropped so far, in order
    idle_waited,    \* Context::wait_idle returned success
    submitted,      \* some queue_submit2 succeeded
    pc,             \* position inside Renderer::render
    result,         \* value returned by the last call of Renderer::render
    frame,          \* the slot selected by the running tick (local `frame`)
    frame_idx,      \* Renderer::frame_idx
    fence,          \* fence[s]: the render_fence of slot s is signaled
    cmd,            \* cmd[s]: life-cycle state of the command buffer of slot s
    gpu,            \* slots submitted to the graphics queue, not yet retired
    ops,            \* the API calls made by the running (or last) tick
    swap_image_idx, \* FrameBeginResult::swap_image_idx of the running tick
    sem,            \* sem[s]: state of the two binary semaphores of slot s
    bufs,           \* bufs[b]: the Buffer b (state, size, allocation, bindings)
    depth,          \* the DepthBuffer
    heap,           \* allocations handed out by the allocator and not freed
    frees,          \* frees[a]: how many times allocation a was freed
    next_alloc,     \* the next allocation the allocator hands out
    mem,            \* mem[a]: bytes last copied into the mapping of a
    last,           \* the last Buffer / DepthBuffer call and what it returned
    call,           \* a selection function and the arguments it is called with
    ret,            \* << >> before that call returns, then << its result >>
    ctx             \* the running Context::new: position, devices seen, result

life == <<app, alive, dropq, drop_log, idle_waited>>
rend == <<pc, result, frame, frame_idx, fence, cmd, gpu, ops, swap_image_idx, sem,
          submitted>>
bufv == <<bufs, depth, heap, frees, next_alloc, mem, last>>
setv == <<call, ret, ctx>>
vars == <<app, alive, dropq, drop_log, idle_waited, submitted,
          pc, result, frame, frame_idx, fence, cmd, gpu, ops, swap_image_idx, sem,
          bufs, depth, heap, frees, next_alloc, mem, last, call, ret, ctx>>

\* What the steps of one part of the model leave alone.
not_rend == <<life, bufv, setv>>
not_life == <<rend, bufv, setv>>
not_bufv == <<life, rend, setv>>
not_setv == <<life, rend, bufv>>

\* ------------------------------------------------------------------------
\* Frame slots (renderer.rs:156-184) and the handles a tick touches
\* ------------------------------------------------------------------------

\* Frame::new: each slot owns one command buffer, one fence and two
\* semaphores of its own.
Frame(s) ==
    [ render_fence    |-> <<"fence", s>>,
      swap_acquired   |-> <<"swap_acquired", s>>,
      render_complete |-> <<"render_complete", s>>,
      command_buffer  |-> <<"command_buffer", s>> ]

frames_Short == [ s \in 0 .. (FRAMES_IN_FLIGHT - 2) |-> Frame(s) ]

\* Renderer::frames, built once by Renderer::new.
frames == [ s \in Slots |-> Frame(s) ]

SwapImage(i) == <<"swap_image", i>>
DepthImage == <<"depth_image", 0>>

\* Semaphore::submit_info
submit_info(semaphore, stages) == [ semaphore |-> semaphore, stage_mask |-> stages ]

\* util::transition_image: one image memory barrier recorded into cb.
transition_image(cb, image, src, dst) ==
    [ op |-> "cmd_pipeline_barrier2", ok |-> TRUE, cb |-> cb, image |-> image,
      old_layout |-> src, new_layout |-> dst ]

\* util::swap_acquire_transition
swap_acquire_transition(cb, image) ==
    transition_image(cb, image, "UNDEFINED", "COLOR_ATTACHMENT_OPTIMAL")

\* util::swap_present_transition
swap_present_transition(cb, image) ==
    transition_image(cb, image, "COLOR_ATTACHMENT_OPTIMAL", "PRESENT_SRC_KHR")

\* The commands Frame::begin records once the image is acquired.
BeginRecording(f, img) ==
    << swap_acquire_transition(f.command_buffer, SwapImage(img)),
       [ op |-> "cmd_begin_rendering", ok |-> TRUE, cb |-> f.command_buffer,
         color_image |-> SwapImage(img),
         color_layout |-> "COLOR_ATTACHMENT_OPTIMAL",
         depth_image |-> DepthImage,
         depth_layout |-> "DEPTH_ATTACHMENT_OPTIMAL" ],
       [ op |-> "cmd_set_viewport", ok |-> TRUE, cb |-> f.command_buffer ],
       [ op |-> "cmd_set_scissor", ok |-> TRUE, cb |-> f.command_buffer ] >>

\* The commands Renderer::render records between Frame::begin and Frame::end.
DrawRecording(f) ==
    << [ op |-> "cmd_bind_pipeline", ok |-> TRUE, cb |-> f.command_buffer ],
       [ op |-> "cmd_bind_vertex_buffers", ok |-> TRUE, cb |-> f.command_buffer ],
       [ op |-> "cmd_bind_index_buffer", ok |-> TRUE, cb |-> f.command_buffer ],
       [ op |-> "cmd_push_constants", ok |-> TRUE, cb |-> f.command_buffer ],
       [ op |-> "cmd_draw_indexed", ok |-> TRUE, cb |-> f.command_buffer ] >>

EndRecording_TransitionFirst(f, img) ==
    << swap_present_transition(f.command_buffer, SwapImage(img)),
       [ op |-> "cmd_end_rendering", ok |-> TRUE, cb |-> f.command_buffer ] >>

\* The commands Frame::end records before it ends the command buffer.
EndRecording(f, img) ==
    << [ op |-> "cmd_end_rendering", ok |-> TRUE, cb |-> f.command_buffer ],
       swap_present_transition(f.command_buffer, SwapImage(img)) >>

\* The submission Frame::end hands to queue_submit2 (renderer.rs:285-308).
SubmitOp_SharedSemaphores(f, ok) ==
    [ op |-> "queue_submit2", ok |-> ok, cb |-> f.command_buffer,
      wait |-> submit_info(Frame(0).swap_acquired, "COLOR_ATTACHMENT_OUTPUT"),
      signal |-> submit_info(Frame(0).render_complete, "ALL_COMMANDS"),
      fence |-> f.render_fence ]

SubmitOp(f, ok) ==
    [ op |-> "queue_submit2", ok |-> ok, cb |-> f.command_buffer,
      wait |-> submit_info(f.swap_acquired, "COLOR_ATTACHMENT_OUTPUT"),
      signal |-> submit_info(f.render_complete, "ALL_COMMANDS"),
      fence |-> f.render_fence ]

PresentOp_SlotIndex(f, img, ok) ==
    [ op |-> "queue_present", ok |-> ok, wait |-> f.render_complete,
      idx |-> f.command_buffer[2] ]

\* The request Frame::end hands to Swapchain::present.
PresentOp(f, img, ok) ==
    [ op |-> "queue_present", ok |-> ok, wait |-> f.render_complete, idx |-> img ]

\* Renderer::render, last statement (renderer.rs:498).
NextFrameIdx_NoWrap(i) == i + 1

NextFrameIdx(i) == (i + 1) % FRAMES_IN_FLIGHT

\* ------------------------------------------------------------------------
\* Renderer::render, one step per fallible call (renderer.rs:432-501,
\* Frame::begin 186-263, Frame::end 265-317)
\* ------------------------------------------------------------------------

\* A binary semaphore is unsignaled, or signaled (a signal operation on it
\* was queued and no wait has been queued for it since), or was handed to a
\* second signal operation while still signaled, which the API forbids.
Signaled(state) == IF state = "unsignaled" THEN "signaled" ELSE "resignaled"

Waited(state) == IF state = "resignaled" THEN "resignaled" ELSE "unsignaled"

\* A failed call: `?` returns the error from render; nothing else runs.
ReturnErr ==
    /\ pc' = "idle"
    /\ result' = "Err"

\* Fence::wait (sync.rs:57-65): vkWaitForFences returns success only for a
\* signaled fence.
FenceSignaled_Always(s) == TRUE

FenceSignaled(s) == fence[s]

\* `self.render_fence.wait(1_000_000_000)?` (renderer.rs:197): an error
\* leaves render at once.
AfterWait_IgnoreError(ok) ==
    /\ pc' = "reset"
    /\ result' = "none"

AfterWait(ok) ==
    IF ok THEN pc' = "reset" /\ result' = "none" ELSE ReturnErr

\* frames.get_mut(frame_idx) (Err "invalid frame idx" when out of range),
\* then Fence::wait(1s) on the slot's fence.  The wait succeeds only on a
\* signaled fence; on an unsignaled one it times out; any wait may also fail
\* with a device error.
FenceWait(ok) ==
    /\ app = "running"
    /\ pc = "idle"
    /\ swap_image_idx' = -1
    /\ IF frame_idx \notin DOMAIN frames
         THEN /\ ~ok
              /\ ops' = << >>
              /\ UNCHANGED frame
              /\ ReturnErr
         ELSE /\ ok => FenceSignaled(frame_idx)
              /\ frame' = frame_idx
              /\ ops' = << [ op |-> "wait_for_fences", ok |-> ok,
                             fence |-> frames[frame_idx].render_fence ] >>
              /\ AfterWait(ok)
    /\ UNCHANGED <<frame_idx, fence, cmd, gpu, sem, submitted>>
    /\ UNCHANGED not_rend

\* Fence::reset
FenceReset(ok) ==
    /\ pc = "reset"
    /\ ops' = Append(ops, [ op |-> "reset_fences", ok |-> ok,
                            fence |-> frames[frame].render_fence ])
    /\ IF ok
         THEN /\ fence' = [fence EXCEPT ![frame] = FALSE]
              /\ pc' = "cb_begin"
              /\ UNCHANGED result
         ELSE /\ ReturnErr
              /\ UNCHANGED fence
    /\ UNCHANGED <<frame, frame_idx, cmd, gpu, swap_image_idx, sem, submitted>>
    /\ UNCHANGED not_rend

\* CommandBuffer::begin(ONE_TIME_SUBMIT)
CmdBegin(ok) ==
    /\ pc = "cb_begin"
    /\ ops' = Append(ops, [ op |-> "begin_command_buffer", ok |-> ok,
                            cb |-> frames[frame].command_buffer,
                            flags |-> "ONE_TIME_SUBMIT" ])
    /\ IF ok
         THEN /\ cmd' = [cmd EXCEPT ![frame] = "recording"]
              /\ pc' = "acquire"
              /\ UNCHANGED result
         ELSE /\ ReturnErr
              /\ UNCHANGED cmd
    /\ UNCHANGED <<frame, frame_idx, fence, gpu, swap_image_idx, sem, submitted>>
    /\ UNCHANGED not_rend

\* Swapchain::acquire_image(&self.swap_acquired), then the recording of the
\* rest of Frame::begin.
AcquireImage(ok, img) ==
    /\ pc = "acquire"
    /\ IF ok
         THEN /\ ops' = Append(ops, [ op |-> "acquire_next_image", ok |-> TRUE,
                                      semaphore |-> frames[frame].swap_acquired,
                                      idx |-> img ])
                        \o BeginRecording(frames[frame], img)
              /\ swap_image_idx' = img
              /\ sem' = [sem EXCEPT ![frame].swap_acquired = Signaled(@)]
              /\ pc' = "draw"
              /\ UNCHANGED result
         ELSE /\ ops' = Append(ops, [ op |-> "acquire_next_image", ok |-> FALSE,
                                      semaphore |-> frames[frame].swap_acquired,
                                      idx |-> -1 ])
              /\ UNCHANGED <<swap_image_idx, sem>>
              /\ ReturnErr
    /\ UNCHANGED <<frame, frame_idx, fence, cmd, gpu, submitted>>
    /\ UNCHANGED not_rend

\* Renderer::render: bind pipeline and buffers, push constants, draw.
RecordDraw ==
    /\ pc = "draw"
    /\ ops' = ops \o DrawRecording(frames[frame])
    /\ pc' = "end"
    /\ UNCHANGED <<result, frame, frame_idx, fence, cmd, gpu, swap_image_idx, sem, submitted>>
    /\ UNCHANGED not_rend

\* Frame::end up to CommandBuffer::end: get_image (the index came from
\* acquire_image, so the lookup succeeds), end rendering, present transition.
CmdEnd(ok) ==
    /\ pc = "end"
    /\ swap_image_idx \in Images
    /\ ops' = (ops \o EndRecording(frames[frame], swap_image_idx))
              \o << [ op |-> "end_command_buffer", ok |-> ok,
                      cb |-> frames[frame].command_buffer ] >>
    /\ IF ok
         THEN /\ cmd' = [cmd EXCEPT ![frame] = "executable"]
              /\ pc' = "submit"
              /\ UNCHANGED result
         ELSE /\ ReturnErr
              /\ UNCHANGED cmd
    /\ UNCHANGED <<frame, frame_idx, fence, gpu, swap_image_idx, sem, submitted>>
    /\ UNCHANGED not_rend

\* queue_submit2(graphics queue, submit, render_fence)
QueueSubmit(ok) ==
    /\ pc = "submit"
    /\ ops' = Append(ops, SubmitOp(frames[frame], ok))
    /\ IF ok
         THEN /\ gpu' = Append(gpu, frame)
              /\ cmd' = [cmd EXCEPT ![frame] = "pending"]
              /\ submitted' = TRUE
              /\ sem' = [sem EXCEPT ![frame].swap_acquired = Waited(@),
                                    ![frame].render_complete = Signaled(@)]
              /\ pc' = "present"
              /\ UNCHANGED result
         ELSE /\ ReturnErr
              /\ UNCHANGED <<gpu, cmd, sem, submitted>>
    /\ UNCHANGED <<frame, frame_idx, fence, swap_image_idx>>
    /\ UNCHANGED not_rend

\* Swapchain::present, and on success the advance of frame_idx and Ok(()).
\* A present that fails has queued its semaphore wait or not, depending on
\* the error (out-of-date and surface-lost requests still wait).
QueuePresent(ok) ==
    /\ pc = "present"
    /\ ops' = Append(ops, PresentOp(frames[frame], swap_image_idx, ok))
    /\ IF ok
         THEN /\ frame_idx' = NextFrameIdx(frame_idx)
              /\ sem' = [sem EXCEPT ![frame].render_complete = Waited(@)]
              /\ pc' = "idle"
              /\ result' = "Ok"
         ELSE /\ ReturnErr
              /\ \E waited \in BOOLEAN :
                   sem' = IF waited
                            THEN [sem EXCEPT ![frame].render_complete = Waited(@)]
                            ELSE sem
              /\ UNCHANGED frame_idx
    /\ UNCHANGED <<frame, fence, cmd, gpu, swap_image_idx, submitted>>
    /\ UNCHANGED not_rend

\* The GPU retires the oldest submission of the graphics queue: the command
\* buffer (one-time-submit) becomes invalid and the submission's fence is
\* signaled.
GpuComplete ==
    /\ gpu # << >>
    /\ <<"device", 0>> \in alive
    /\ fence' = [fence EXCEPT ![Head(gpu)] = TRUE]
    /\ cmd' = [cmd EXCEPT ![Head(gpu)] = "invalid"]
    /\ gpu' = Tail(gpu)
    /\ UNCHANGED <<pc, result, frame, frame_idx, ops, swap_image_idx, sem, submitted>>
    /\ UNCHANGED not_rend

\* ------------------------------------------------------------------------
\* Ownership graph: who holds whom, in field declaration order.
\* Own(x): the field is the value x itself.  Arc(x): the field is an
\* Arc<x>, one strong reference.
\* ------------------------------------------------------------------------
Obj(name) == <<name, 0>>
Own(x) == <<"own", x>>
Arc(x) == <<"arc", x>>

\* window.rs:11-15 (main.rs:16-20 declares the same fields in the same order)
WindowFields ==
    << Own(Obj("handle")), Arc(Obj("context")), Own(Obj("renderer")) >>

\* vulkan/context.rs:17-22
ContextFields ==
    << Arc(Obj("instance")), Arc(Obj("surface")), Arc(Obj("device")),
       Arc(Obj("swapchain")) >>

\* renderer.rs:322-344
RendererFields ==
    << Arc(Obj("device")), Arc(Obj("swapchain")),
       Own(Obj("command_pool")), Own(Obj("graphics_pipeline")),
       Own(Obj("vertex_buffer")), Own(Obj("index_buffer")),
       Own(Obj("depth_buffer")) >>
    \o [ i \in 1 .. FRAMES_IN_FLIGHT |-> Own(<<"frame", i - 1>>) ]

\* renderer.rs:156-162
FrameFields(s) ==
    << Own(Frame(s).render_fence), Own(Frame(s).swap_acquired),
       Own(Frame(s).render_complete), Own(Frame(s).command_buffer) >>

\* vulkan/swapchain.rs:17-26
SwapchainFields_NoSurface == << Arc(Obj("device")) >>

SwapchainFields == << Arc(Obj("device")), Arc(Obj("surface")) >>

\* vulkan/surface.rs:7-11
SurfaceFields == << Arc(Obj("instance")) >>

\* vulkan/device.rs:13-22
DeviceFields == << Arc(Obj("instance")) >>

\* Fence, Semaphore (sync.rs), CommandPool, CommandBuffer (command.rs) and
\* Pipeline (pipeline.rs) each hold one Arc<Device>.
DeviceChildFields == << Arc(Obj("device")) >>

\* Buffer (buffer.rs:7-13) and DepthBuffer (renderer.rs:24-30) hold an
\* Arc<Context>.
ContextChildFields == << Arc(Obj("context")) >>

Fields(o) ==
    CASE o[1] = "window"    -> WindowFields
      [] o[1] = "context"   -> ContextFields
      [] o[1] = "renderer"  -> RendererFields
      [] o[1] = "frame"     -> FrameFields(o[2])
      [] o[1] = "swapchain" -> SwapchainFields
      [] o[1] = "surface"   -> SurfaceFields
      [] o[1] = "device"    -> DeviceFields
      [] o[1] \in {"fence", "swap_acquired", "render_complete", "command_buffer",
                   "command_pool", "graphics_pipeline"} -> DeviceChildFields
      [] o[1] \in {"vertex_buffer", "index_buffer", "depth_buffer"} -> ContextChildFields
      [] OTHER -> << >>

\* The types with an `impl Drop` that destroys the API handle (the winit
\* window closes the native window when dropped).  Window, Context, Renderer,
\* Frame and CommandBuffer have none: command buffers are freed with their pool.
HasDropImpl(o) ==
    o[1] \in {"handle", "instance", "surface", "device", "swapchain",
              "command_pool", "graphics_pipeline", "vertex_buffer", "index_buffer",
              "depth_buffer", "fence", "swap_acquired", "render_complete"}

FrameObjects(s) ==
    { <<"frame", s>>, Frame(s).command_buffer, Frame(s).render_fence,
      Frame(s).swap_acquired, Frame(s).render_complete }

\* The objects in the order Window::new (window.rs:22-48), Context::new
\* (context.rs:117-161) and Renderer::new (renderer.rs:347-430) create them.
CreationSteps ==
    << {Obj("handle")}, {Obj("instance")}, {Obj("surface")}, {Obj("device")},
       {Obj("swapchain")}, {Obj("context")}, {Obj("command_pool")},
       {Obj("depth_buffer")}, {Obj("graphics_pipeline")}, {Obj("vertex_buffer")},
       {Obj("index_buffer")} >>
    \o [ i \in 1 .. FRAMES_IN_FLIGHT |-> FrameObjects(i - 1) ]
    \o << {Obj("renderer")}, {Obj("window")} >>

Created(k) == UNION { CreationSteps[i] : i \in 1 .. k }
AllObjects == Created(Len(CreationSteps))

Reverse(s) == [ i \in 1 .. Len(s) |-> s[Len(s) + 1 - i] ]

\* Number of strong references to t: the Arc fields of the live objects and
\* the Arc locals of the functions being unwound.
RefCount(t, live, roots) ==
    Cardinality({ e \in UNION { { <<o, i>> : i \in DOMAIN Fields(o) } : o \in live } :
                    Fields(e[1])[e[2]] = Arc(t) })
    + Cardinality({ i \in 1 .. Len(roots) : roots[i] = Arc(t) })

\* Dropping a value: its Drop::drop runs first, then its fields are dropped
\* in declaration order; dropping an Arc releases one reference and drops
\* the pointee when it was the last one.  `work` is the stack of fields
\* still to be dropped, `rc` the reference counts, `log` the values dropped.
RECURSIVE DropFields(_, _, _)
DropFields(work, rc, log) ==
    IF work = << >> THEN log
    ELSE IF Head(work)[1] = "own"
      THEN DropFields(Fields(Head(work)[2]) \o Tail(work), rc,
                      Append(log, Head(work)[2]))
      ELSE IF rc[Head(work)[2]] = 1
        THEN DropFields(Fields(Head(work)[2]) \o Tail(work),
                        [rc EXCEPT ![Head(work)[2]] = 0],
                        Append(log, Head(work)[2]))
        ELSE DropFields(Tail(work), [rc EXCEPT ![Head(work)[2]] = @ - 1], log)

DropSeq(roots, live) ==
    DropFields(roots, [ t \in AllObjects |-> RefCount(t, live, roots) ], << >>)

\* ------------------------------------------------------------------------
\* Application life cycle (main.rs:26-103, window.rs:22-59)
\* ------------------------------------------------------------------------

\* What unwinding drops, in order, when construction fails after k creation
\* steps: the locals of the running constructor in reverse declaration
\* order, then its parameters, then the locals of Window::new.
ContextNewLocals ==
    << Arc(Obj("instance")), Arc(Obj("surface")), Arc(Obj("device")),
       Arc(Obj("swapchain")) >>

RendererNewLocals ==
    << Own(Obj("command_pool")), Own(Obj("depth_buffer")),
       Own(Obj("graphics_pipeline")), Own(Obj("vertex_buffer")),
       Own(Obj("index_buffer")) >>

Min(a, b) == IF a < b THEN a ELSE b

UnwindRoots(k) ==
    IF k = 0 THEN << >>
    ELSE IF k <= 5
      THEN Reverse(SubSeq(ContextNewLocals, 1, k - 1)) \o << Own(Obj("handle")) >>
      ELSE [ i \in 1 .. (IF k > 11 THEN k - 11 ELSE 0) |-> Own(<<"frame", i - 1>>) ]
           \o Reverse(SubSeq(RendererNewLocals, 1, Min(k - 6, 5)))
           \o << Arc(Obj("device")), Arc(Obj("swapchain")), Arc(Obj("context")),
                 Arc(Obj("context")), Own(Obj("handle")) >>

\* The drops of a teardown that starts with the objects `live`.
Teardown(live) ==
    IF Obj("window") \in live
      THEN DropSeq(<< Own(Obj("window")) >>, live)
      ELSE DropSeq(UnwindRoots(Cardinality({ k \in 1 .. Len(CreationSteps) :
                                               CreationSteps[k] \subseteq live })), live)

\* App::resumed: Window::new builds the window, the Context and the Renderer.
Resumed ==
    /\ app = "start"
    /\ alive' = AllObjects
    /\ app' = "running"
    /\ UNCHANGED <<dropq, drop_log, idle_waited>>
    /\ UNCHANGED not_life

\* App::resumed when creation step k + 1 fails: `expect` panics.
ResumedPanic(k) ==
    /\ app = "start"
    /\ alive' = Created(k)
    /\ app' = "panic"
    /\ UNCHANGED <<dropq, drop_log, idle_waited>>
    /\ UNCHANGED not_life

\* App::about_to_wait starts a tick: window.renderer.render().
AboutToWait(ok) ==
    /\ result # "Err"
    /\ FenceWait(ok)

\* App::about_to_wait: render() returned Err and `unwrap` panics.
RenderUnwrapPanic ==
    /\ app = "running"
    /\ pc = "idle"
    /\ result = "Err"
    /\ app' = "panic"
    /\ UNCHANGED <<alive, dropq, drop_log, idle_waited>>
    /\ UNCHANGED not_life

\* App::window_event(CloseRequested): event_loop.exit().
CloseRequested ==
    /\ app = "running"
    /\ pc = "idle"
    /\ result # "Err"
    /\ app' = "exiting"
    /\ UNCHANGED <<alive, dropq, drop_log, idle_waited>>
    /\ UNCHANGED not_life

\* App::exiting: context.wait_idle().expect(..).  The wait returns success
\* once the queues are empty; a failed wait panics.  Then run_app returns
\* and main drops the App.
Exiting(ok) ==
    /\ app = "exiting"
    /\ IF ok
         THEN /\ gpu = << >>
              /\ idle_waited' = TRUE
              /\ app' = "dropping"
              /\ dropq' = Teardown(alive)
         ELSE /\ app' = "panic"
              /\ UNCHANGED <<idle_waited, dropq>>
    /\ UNCHANGED <<alive, drop_log>>
    /\ UNCHANGED not_life

\* A panic unwinds through run_app into main, which drops the App ...
PanicUnwind ==
    /\ app = "panic"
    /\ app' = "dropping"
    /\ dropq' = Teardown(alive)
    /\ UNCHANGED <<alive, drop_log, idle_waited>>
    /\ UNCHANGED not_life

\* ... or aborts the process (a build with panic = "abort", or a panic that
\* cannot cross the event loop's native frames): nothing is dropped.
PanicAbort ==
    /\ app = "panic"
    /\ app' = "aborted"
    /\ UNCHANGED <<alive, dropq, drop_log, idle_waited>>
    /\ UNCHANGED not_life

\* One drop of the running teardown.
DropStep ==
    /\ app = "dropping"
    /\ dropq # << >>
    /\ alive' = alive \ {Head(dropq)}
    /\ drop_log' = Append(drop_log, Head(dropq))
    /\ dropq' = Tail(dropq)
    /\ UNCHANGED <<app, idle_waited>>
    /\ UNCHANGED not_life

\* The teardown is over and the process ends.
Exit ==
    /\ app = "dropping"
    /\ dropq = << >>
    /\ app' = "exited"
    /\ UNCHANGED <<alive, dropq, drop_log, idle_waited>>
    /\ UNCHANGED not_life

\* ------------------------------------------------------------------------
\* Buffer (vulkan/buffer.rs) and DepthBuffer (renderer.rs) device memory
\* ------------------------------------------------------------------------

\* Buffers the model follows, allocations the allocator can hand out and
\* the longest payload handed to update_mapped_data.
MaxBuffers == 1
MaxAllocs == 2
MaxLen == 2

BufIds == 1 .. MaxBuffers
AllocIds == 1 .. MaxAllocs
\* Declared sizes of the buffers and size_of::<T>() of the payload elements.
BufSizes == {4, 8}
ElemSizes == {1, 4}

\* A Buffer that does not exist yet; allocation 0 is Option::None.
NoBuffer == [state |-> "none", size |-> 0, allocation |-> 0, mapped |-> FALSE,
             bound |-> {}]

Call(op, b, data_size, res, wrote) ==
    [op |-> op, buf |-> b, data_size |-> data_size, result |-> res, wrote |-> wrote]

\* Context::alloc_gpu_mem: the allocator hands out a fresh allocation.
alloc_gpu_mem ==
    /\ heap' = heap \cup {next_alloc}
    /\ next_alloc' = next_alloc + 1

\* Context::free_gpu_mem: the allocation goes back to the allocator.
free_gpu_mem(a) ==
    /\ heap' = heap \ {a}
    /\ frees' = [frees EXCEPT ![a] = @ + 1]

\* Buffer::new: create_buffer, no memory yet.
BufferNew(b, size, ok) ==
    /\ bufs[b].state = "none"
    /\ IF ok
         THEN /\ bufs' = [bufs EXCEPT ![b] = [state |-> "live", size |-> size,
                                               allocation |-> 0, mapped |-> FALSE,
                                               bound |-> {}]]
              /\ last' = Call("new", b, 0, "Ok", FALSE)
         ELSE /\ last' = Call("new", b, 0, "Err", FALSE)
              /\ UNCHANGED bufs
    /\ UNCHANGED <<depth, heap, frees, next_alloc, mem>>
    /\ UNCHANGED not_bufv

\* Buffer::allocate: alloc_gpu_mem()?, bind_buffer_memory()?, then
\* self.allocation = Some(allocation).  The local allocation is not freed
\* when the bind fails, nor is the allocation the field held before.
\* `mappable`: desc.location is host visible, the allocation has a mapped_ptr.
allocate(op, b, alloc_ok, bind_ok, mappable) ==
    /\ bufs[b].state = "live"
    /\ next_alloc <= MaxAllocs
    /\ IF ~alloc_ok
         THEN /\ last' = Call(op, b, 0, "Err", FALSE)
              /\ UNCHANGED <<bufs, heap, next_alloc>>
         ELSE /\ alloc_gpu_mem
              /\ IF bind_ok
                   THEN /\ bufs' = [bufs EXCEPT ![b].allocation = next_alloc,
                                                ![b].mapped = mappable,
                                                ![b].bound = @ \cup {next_alloc}]
                        /\ last' = Call(op, b, 0, "Ok", FALSE)
                   ELSE /\ last' = Call(op, b, 0, "Err", FALSE)
                        /\ UNCHANGED bufs
    /\ UNCHANGED <<depth, frees, mem>>
    /\ UNCHANGED not_bufv

Allocate(b, alloc_ok, bind_ok, mappable) ==
    allocate("allocate", b, alloc_ok, bind_ok, mappable)

\* Buffer::allocate_full asks for MemoryLocation::CpuToGpu and calls allocate.
AllocateFull(b, alloc_ok, bind_ok) ==
    allocate("allocate_full", b, alloc_ok, bind_ok, TRUE)

SizeMatches_AtMost(data_size, size) == data_size <= size

\* update_mapped_data: `data_size != self.size` is the size mismatch.
SizeMatches(data_size, size) == data_size = size

\* Buffer::update_mapped_data(data) with data.len() = len and
\* size_of::<T>() = elem.
UpdateMappedData(b, len, elem) ==
    /\ bufs[b].state = "live"
    /\ IF ~SizeMatches(len * elem, bufs[b].size)
         THEN /\ last' = Call("update_mapped_data", b, len * elem, "size_mismatch", FALSE)
              /\ UNCHANGED mem
         ELSE IF bufs[b].allocation = 0
           THEN /\ last' = Call("update_mapped_data", b, len * elem, "unallocated", FALSE)
                /\ UNCHANGED mem
           ELSE IF ~bufs[b].mapped
             THEN \* allocation.mapped_ptr().unwrap() panics
                  /\ last' = Call("update_mapped_data", b, len * elem, "panic", FALSE)
                  /\ UNCHANGED mem
             ELSE /\ mem' = [mem EXCEPT ![bufs[b].allocation] = len * elem]
                  /\ last' = Call("update_mapped_data", b, len * elem, "Ok", TRUE)
    /\ UNCHANGED <<bufs, depth, heap, frees, next_alloc>>
    /\ UNCHANGED not_bufv

\* Drop for Buffer: free the allocation the field holds, destroy the buffer.
BufferDrop(b) ==
    /\ bufs[b].state = "live"
    /\ IF bufs[b].allocation # 0
         THEN free_gpu_mem(bufs[b].allocation)
         ELSE UNCHANGED <<heap, frees>>
    /\ bufs' = [bufs EXCEPT ![b].state = "dropped", ![b].allocation = 0,
                             ![b].mapped = FALSE]
    /\ last' = Call("drop", b, 0, "Ok", FALSE)
    /\ UNCHANGED <<depth, next_alloc, mem>>
    /\ UNCHANGED not_bufv

\* The steps of DepthBuffer::new that can fail, in order.
DepthSteps ==
    << "select_depth_format", "create_image", "alloc_gpu_mem", "bind_image_memory",
       "create_image_view" >>

NoDepthBuffer == [state |-> "none", allocation |-> 0, image |-> FALSE, view |-> FALSE]

\* DepthBuffer::new; step `fail` of DepthSteps fails (0: none does).  Every
\* failure is a `?` return: what was created before it is not released.
DepthBufferNew(fail) ==
    /\ depth.state = "none"
    /\ next_alloc <= MaxAllocs
    /\ IF fail \in 1 .. 3
         THEN UNCHANGED <<heap, next_alloc>>
         ELSE alloc_gpu_mem
    /\ depth' = IF fail \in 1 .. 2 THEN depth
                ELSE IF fail \in 3 .. 5
                  THEN [state |-> "failed", allocation |-> 0, image |-> TRUE,
                        view |-> FALSE]
                  ELSE [state |-> "live", allocation |-> next_alloc, image |-> TRUE,
                        view |-> TRUE]
    /\ last' = Call("depth_new", 0, 0, IF fail = 0 THEN "Ok" ELSE "Err", FALSE)
    /\ UNCHANGED <<bufs, frees, mem>>
    /\ UNCHANGED not_bufv

\* Drop for DepthBuffer: free the allocation, destroy the view and the image.
DepthBufferDrop ==
    /\ depth.state = "live"
    /\ free_gpu_mem(depth.allocation)
    /\ depth' = [state |-> "dropped", allocation |-> 0, image |-> FALSE, view |-> FALSE]
    /\ last' = Call("depth_drop", 0, 0, "Ok", FALSE)
    /\ UNCHANGED <<bufs, next_alloc, mem>>
    /\ UNCHANGED not_bufv

\* No Buffer and no DepthBuffer yet, nothing allocated.
BufferInit ==
    /\ bufs = [ b \in BufIds |-> NoBuffer ]
    /\ depth = NoDepthBuffer
    /\ heap = {}
    /\ frees = [ a \in AllocIds |-> 0 ]
    /\ next_alloc = 1
    /\ mem = [ a \in AllocIds |-> 0 ]
    /\ last = Call("none", 0, 0, "Ok", FALSE)

\* ------------------------------------------------------------------------
\* Queue family selection (vulkan/phys_device.rs)
\* ------------------------------------------------------------------------

\* Longest queue family table of a physical device the model follows.
MaxFamilies == 3

\* Option::None of a queue family index.
None == -1

Ok(v) == [tag |-> "Ok", val |-> v, err |-> ""]
Err(e) == [tag |-> "Err", val |-> None, err |-> e]

\* A queue family: the GRAPHICS and TRANSFER bits of its queue_flags.
QueueFamilyProperties == [graphics : BOOLEAN, transfer : BOOLEAN]

\* The queue family tables: family i of the device is families[i + 1].
FamilyTables ==
    UNION { [ 1 .. n -> QueueFamilyProperties ] : n \in 1 .. MaxFamilies }

\* What get_physical_device_surface_support answers for one family.
SupportAnswers == {"yes", "no", "err"}

\* get_queue_families_with_flag: the indices, in order, of the families
\* whose queue_flags contain the flag.
get_queue_families_with_flag(families, flag) ==
    LET Has(i) == IF flag = "GRAPHICS" THEN families[i].graphics
                  ELSE families[i].transfer
    IN  SelectSeq([ i \in 1 .. Len(families) |-> i - 1 ], LAMBDA f : Has(f + 1))

\* Iterator::next of a sequence of indices.
First(s) == IF s = << >> THEN None ELSE Head(s)

\* select_graphics_family: any family with graphics support, the first.
select_graphics_family(families) ==
    First(get_queue_families_with_flag(families, "GRAPHICS"))

NotGraphics_Any(f, graphics_family) == TRUE

\* select_transfer_family: the filter |f| *f != graphics_family.
NotGraphics(f, graphics_family) == f # graphics_family

\* select_transfer_family: a transfer family that is not the graphics
\* family, falling back to the graphics family.
select_transfer_family(families, graphics_family) ==
    LET found == First(SelectSeq(get_queue_families_with_flag(families, "TRANSFER"),
                                 LAMBDA f : NotGraphics(f, graphics_family)))
    IN  IF found = None THEN graphics_family ELSE found

Settle_KeepFirst(present_family, i) ==
    IF present_family = None THEN i ELSE present_family

\* select_present_family: `present_family = Some(i)` for a family that can
\* present and is not the graphics family.
Settle(present_family, i) == i

\* select_present_family: the loop `for i in 0..queue_families.len()` from
\* family i on; support[i + 1] is the answer of the support query for i.
RECURSIVE PresentLoop(_, _, _, _)
PresentLoop(i, support, graphics_family, present_family) ==
    IF i = Len(support) THEN Ok(present_family)
    ELSE IF support[i + 1] = "err" THEN Err("get_physical_device_surface_support")
    ELSE IF support[i + 1] = "yes"
      THEN IF graphics_family = i
             THEN Ok(graphics_family)
             ELSE PresentLoop(i + 1, support, graphics_family, Settle(present_family, i))
      ELSE PresentLoop(i + 1, support, graphics_family, present_family)

select_present_family(support, graphics_family) ==
    PresentLoop(0, support, graphics_family, None)

\* The calls of select_present_family: one answer per family and the
\* graphics family, an index of the table.
PresentFamilyCalls ==
    UNION { { [fn |-> "select_present_family", support |-> sup, graphics_family |-> g] :
                sup \in [ 1 .. n -> SupportAnswers ], g \in 0 .. (n - 1) } :
            n \in 1 .. MaxFamilies }

\* The calls of select_transfer_family: a table with a graphics family and
\* the index select_graphics_family found in it.
TransferFamilyCalls ==
    { [fn |-> "select_transfer_family", families |-> t,
       graphics_family |-> select_graphics_family(t)] :
        t \in { u \in FamilyTables : select_graphics_family(u) # None } }

SelectPresentFamily ==
    /\ call.fn = "select_present_family" /\ ret = << >>
    /\ ret' = << select_present_family(call.support, call.graphics_family) >>
    /\ UNCHANGED <<call, ctx>>
    /\ UNCHANGED not_setv

SelectTransferFamily ==
    /\ call.fn = "select_transfer_family" /\ ret = << >>
    /\ ret' = << select_transfer_family(call.families, call.graphics_family) >>
    /\ UNCHANGED <<call, ctx>>
    /\ UNCHANGED not_setv

\* ------------------------------------------------------------------------
\* Required extensions (vulkan/instance.rs, vulkan/phys_device.rs)
\* ------------------------------------------------------------------------

\* instance.rs:42-43 REQUIRED_INSTANCE_EXTENSIONS_BASE
REQUIRED_INSTANCE_EXTENSIONS_BASE == << "VK_EXT_debug_utils" >>

\* What ash_window::enumerate_required_extensions can ask for.
SurfaceExtensionLists ==
    { << "VK_KHR_surface" >>, << "VK_KHR_surface", "VK_KHR_xcb_surface" >> }

InstanceExtensionNames ==
    { "VK_EXT_debug_utils", "VK_KHR_surface", "VK_KHR_xcb_surface", "VK_KHR_display" }

\* phys_device.rs:137-141 REQUIRED_EXTENSIONS
REQUIRED_EXTENSIONS ==
    << "VK_KHR_swapchain", "VK_KHR_dynamic_rendering", "VK_KHR_synchronization2" >>

DeviceExtensionNames == Range(REQUIRED_EXTENSIONS) \cup { "VK_KHR_maintenance1" }

IsMissing_OnlyFirst(required, k, available) ==
    /\ required[k] \notin available
    /\ \A j \in 1 .. (k - 1) : required[j] \in available

\* The filter of get_unsupported_instance_extensions and of
\* PhysicalDevice::new: no available extension has the required name.
IsMissing(required, k, available) == required[k] \notin available

\* get_unsupported_instance_extensions (instance.rs:65-84), and the same
\* filter over REQUIRED_EXTENSIONS in PhysicalDevice::new
\* (phys_device.rs:157-161): the required names that are not available, in
\* the order of the required list.
get_unsupported_extensions(required, available) ==
    LET missing == { k \in DOMAIN required : IsMissing(required, k, available) }
        RECURSIVE Collect(_)
        Collect(k) ==
            IF k > Len(required) THEN << >>
            ELSE IF k \in missing THEN << required[k] >> \o Collect(k + 1)
            ELSE Collect(k + 1)
    IN  Collect(1)

\* The result of Instance::new; `leaked`: a created VkInstance that no
\* Instance value owns.
InstanceResult(tag, err, unsupported, leaked) ==
    [tag |-> tag, err |-> err, unsupported |-> unsupported, leaked |-> leaked]

Instance_new_LayersFirst(a) ==
    LET required == REQUIRED_INSTANCE_EXTENSIONS_BASE \o a.surface_exts
        unsupported == get_unsupported_extensions(required, a.available)
    IN  IF ~a.required_ok
          THEN InstanceResult("Err", "enumerate_required_extensions", << >>, FALSE)
        ELSE IF ~a.extensions_ok
          THEN InstanceResult("Err", "enumerate_instance_extension_properties", << >>, FALSE)
        ELSE IF ~a.layers_ok
          THEN InstanceResult("Err", "enumerate_instance_layer_properties", << >>, FALSE)
        ELSE IF a.validation /\ ~a.layer_available
          THEN InstanceResult("Err", "validation layers were unsupported",
                              << "VK_LAYER_KHRONOS_validation" >>, FALSE)
        ELSE IF Len(unsupported) > 0
          THEN InstanceResult("Err", "required extensions were unsupported", unsupported, FALSE)
        ELSE IF ~a.create_ok
          THEN InstanceResult("Err", "create_instance", << >>, FALSE)
        ELSE IF a.validation /\ ~a.messenger_ok
          THEN InstanceResult("Err", "create_debug_utils_messenger", << >>, TRUE)
        ELSE InstanceResult("Ok", "", << >>, FALSE)

\* Instance::new for the answers `a` of the loader.
Instance_new(a) ==
    LET required == REQUIRED_INSTANCE_EXTENSIONS_BASE \o a.surface_exts
        unsupported == get_unsupported_extensions(required, a.available)
    IN  IF ~a.required_ok
          THEN InstanceResult("Err", "enumerate_required_extensions", << >>, FALSE)
        ELSE IF ~a.extensions_ok
          THEN InstanceResult("Err", "enumerate_instance_extension_properties", << >>, FALSE)
        ELSE IF Len(unsupported) > 0
          THEN InstanceResult("Err", "required extensions were unsupported", unsupported, FALSE)
        ELSE IF ~a.layers_ok
          THEN InstanceResult("Err", "enumerate_instance_layer_properties", << >>, FALSE)
        ELSE IF a.validation /\ ~a.layer_available
          THEN InstanceResult("Err", "validation layers were unsupported",
                              << "VK_LAYER_KHRONOS_validation" >>, FALSE)
        ELSE IF ~a.create_ok
          THEN InstanceResult("Err", "create_instance", << >>, FALSE)
        ELSE IF a.validation /\ ~a.messenger_ok
          THEN InstanceResult("Err", "create_debug_utils_messenger", << >>, TRUE)
        ELSE InstanceResult("Ok", "", << >>, FALSE)

\* The answers Instance::new can get; `validation` is VALIDATION_ENABLED,
\* cfg!(debug_assertions) of the build.
InstanceAnswers ==
    [ required_ok : BOOLEAN, surface_exts : SurfaceExtensionLists,
      extensions_ok : BOOLEAN, available : SUBSET InstanceExtensionNames,
      layers_ok : BOOLEAN, validation : BOOLEAN, layer_available : BOOLEAN,
      create_ok : BOOLEAN, messenger_ok : BOOLEAN ]

InstanceNewCalls == { [fn |-> "Instance::new", answers |-> a] : a \in InstanceAnswers }

InstanceNew ==
    /\ call.fn = "Instance::new" /\ ret = << >>
    /\ ret' = << Instance_new(call.answers) >>
    /\ UNCHANGED <<call, ctx>>
    /\ UNCHANGED not_setv

\* ------------------------------------------------------------------------
\* PhysicalDevice::new (vulkan/phys_device.rs:143-230)
\* ------------------------------------------------------------------------

\* Longest queue family table of the devices offered to PhysicalDevice::new.
MaxDevFamilies == 2

\* select_surface_format: B8G8R8A8_SRGB with SRGB_NONLINEAR, else the first.
select_surface_format(formats) ==
    IF "B8G8R8A8_SRGB" \in Range(formats) THEN "B8G8R8A8_SRGB"
    ELSE IF formats = << >> THEN "" ELSE formats[1]

\* select_present_mode: MAILBOX, else the first.
select_present_mode(modes) ==
    IF "MAILBOX" \in Range(modes) THEN "MAILBOX"
    ELSE IF modes = << >> THEN "" ELSE modes[1]

\* The PhysicalDevice value: the chosen families, format and mode.
NoPhys ==
    [graphics_family |-> None, transfer_family |-> None, present_family |-> None,
     surface_format |-> "", present_mode |-> ""]

PhysResult(tag, err, unsupported, phys) ==
    [tag |-> tag, err |-> err, unsupported |-> unsupported, phys |-> phys]

PhysErr(err) == PhysResult("Err", err, << >>, NoPhys)

ExtensionsAccepted_Always(unsupported) == TRUE

\* PhysicalDevice::new: `unsupported_extensions.len() > 0` rejects.
ExtensionsAccepted(unsupported) == Len(unsupported) = 0

\* PhysicalDevice::new for the answers `d` of one device.
PhysicalDevice_new(d) ==
    LET unsupported == get_unsupported_extensions(REQUIRED_EXTENSIONS, d.available)
        graphics_family == select_graphics_family(d.families)
        transfer_family == select_transfer_family(d.families, graphics_family)
        present == select_present_family(d.support, graphics_family)
    IN  IF ~d.extensions_ok THEN PhysErr("enumerate_device_extension_properties")
        ELSE IF ~ExtensionsAccepted(unsupported)
          THEN PhysResult("Err", "physical device extensions not supported",
                          unsupported, NoPhys)
        ELSE IF graphics_family = None THEN PhysErr("no graphics family available")
        ELSE IF present.tag = "Err" THEN PhysErr(present.err)
        ELSE IF present.val = None THEN PhysErr("no present family found")
        ELSE IF ~d.caps_ok THEN PhysErr("get_physical_device_surface_capabilities")
        ELSE IF ~d.formats_ok THEN PhysErr("get_physical_device_surface_formats")
        ELSE IF select_surface_format(d.formats) = ""
          THEN PhysErr("no surface format available")
        ELSE IF ~d.modes_ok THEN PhysErr("get_physical_device_surface_present_modes")
        ELSE IF select_present_mode(d.modes) = ""
          THEN PhysErr("no valid present mode available")
        ELSE PhysResult("Ok", "", << >>,
                        [graphics_family |-> graphics_family,
                         transfer_family |-> transfer_family,
                         present_family |-> present.val,
                         surface_format |-> select_surface_format(d.formats),
                         present_mode |-> select_present_mode(d.modes)])

\* A device that answers every query and passes: one family that does it all.
GoodDevice ==
    [extensions_ok |-> TRUE, available |-> Range(REQUIRED_EXTENSIONS),
     families |-> << [graphics |-> TRUE, transfer |-> TRUE] >>,
     support |-> << "yes" >>,
     caps_ok |-> TRUE,
     formats_ok |-> TRUE, formats |-> << "B8G8R8A8_SRGB" >>,
     modes_ok |-> TRUE, modes |-> << "FIFO" >>]

\* The devices offered to PhysicalDevice::new: GoodDevice with the answers
\* to its extension query, to its queue family and support queries, or to
\* its surface queries replaced by any other answers.  A surface query that
\* succeeds reports at least one format and at least the FIFO mode, as the
\* API requires; every queue family of these devices can transfer (the
\* choice among families that cannot is select_transfer_family's own case).
Devices ==
    { [GoodDevice EXCEPT !.extensions_ok = ok, !.available = av] :
        ok \in BOOLEAN, av \in SUBSET DeviceExtensionNames }
    \cup
    UNION { { [GoodDevice EXCEPT !.families = t, !.support = sup] :
                t \in [ 1 .. n -> [graphics : BOOLEAN, transfer : {TRUE}] ],
                sup \in [ 1 .. n -> SupportAnswers ] } : n \in 0 .. MaxDevFamilies }
    \cup
    { [GoodDevice EXCEPT !.caps_ok = c, !.formats_ok = fo, !.formats = f,
                         !.modes_ok = mo, !.modes = m] :
        c \in BOOLEAN, fo \in BOOLEAN, mo \in BOOLEAN,
        f \in { << "R8G8B8A8_UNORM" >>, << "R8G8B8A8_UNORM", "B8G8R8A8_SRGB" >> },
        m \in { << "FIFO" >>, << "FIFO", "MAILBOX" >> } }

PhysicalDeviceNewCalls == { [fn |-> "PhysicalDevice::new", device |-> d] : d \in Devices }

PhysicalDeviceNew ==
    /\ call.fn = "PhysicalDevice::new" /\ ret = << >>
    /\ ret' = << PhysicalDevice_new(call.device) >>
    /\ UNCHANGED <<call, ctx>>
    /\ UNCHANGED not_setv

\* ------------------------------------------------------------------------
\* PipelineBuilder::build (vulkan/pipeline.rs:157-298)
\* ------------------------------------------------------------------------

\* A builder and the device's answers to the calls build makes: which of
\* the four fields were given, and whether create_shader_module (twice),
\* create_pipeline_layout and create_graphics_pipelines succeed.
PipelineBuilders ==
    [vertex_shader_data : BOOLEAN, fragment_shader_data : BOOLEAN,
     color_format : BOOLEAN, depth_format : BOOLEAN,
     vertex_module_ok : BOOLEAN, fragment_module_ok : BOOLEAN,
     layout_ok : BOOLEAN, pipeline_ok : BOOLEAN]

PipelineBuilder_build_FragmentFirst(b) ==
    IF ~b.fragment_shader_data THEN Err("no fragment shader specified")
    ELSE IF ~b.vertex_shader_data THEN Err("no vertex shader specified")
    ELSE IF ~b.vertex_module_ok THEN Err("create_shader_module")
    ELSE IF ~b.fragment_module_ok THEN Err("create_shader_module")
    ELSE IF ~b.color_format THEN Err("no color format specified!")
    ELSE IF ~b.depth_format THEN Err("no depth format specified")
    ELSE IF ~b.layout_ok THEN Err("create_pipeline_layout")
    ELSE IF ~b.pipeline_ok THEN Err("create_graphics_pipelines")
    ELSE Ok(0)

\* PipelineBuilder::build: each `?` in the order of the source.
PipelineBuilder_build(b) ==
    IF ~b.vertex_shader_data THEN Err("no vertex shader specified")
    ELSE IF ~b.fragment_shader_data THEN Err("no fragment shader specified")
    ELSE IF ~b.vertex_module_ok THEN Err("create_shader_module")
    ELSE IF ~b.fragment_module_ok THEN Err("create_shader_module")
    ELSE IF ~b.color_format THEN Err("no color format specified!")
    ELSE IF ~b.depth_format THEN Err("no depth format specified")
    ELSE IF ~b.layout_ok THEN Err("create_pipeline_layout")
    ELSE IF ~b.pipeline_ok THEN Err("create_graphics_pipelines")
    ELSE Ok(0)

\* The GPU objects of build when it returns: those it created, those
\* destroyed by then, those the returned Pipeline owns.  The locals
\* vertex_shader and fragment_shader are ShaderModules, whose Drop destroys
\* the module (pipeline.rs:37-45); `layout` is a raw handle no drop destroys.
BuildReturn(created, owned) ==
    [ created |-> created,
      destroyed |-> created \cap {"vertex_shader", "fragment_shader"},
      owned |-> owned ]

\* PipelineBuilder::build, the objects each exit leaves behind.
build_objects(b) ==
    IF ~b.vertex_shader_data \/ ~b.fragment_shader_data \/ ~b.vertex_module_ok
      THEN BuildReturn({}, {})
    ELSE IF ~b.fragment_module_ok
      THEN BuildReturn({"vertex_shader"}, {})
    ELSE IF ~b.color_format \/ ~b.depth_format \/ ~b.layout_ok
      THEN BuildReturn({"vertex_shader", "fragment_shader"}, {})
    ELSE IF ~b.pipeline_ok
      THEN BuildReturn({"vertex_shader", "fragment_shader", "layout"}, {})
    ELSE BuildReturn({"vertex_shader", "fragment_shader", "layout", "handle"},
                     {"layout", "handle"})

\* Drop for Pipeline (pipeline.rs:64-73): the objects it destroys.
Pipeline_drop == {"layout", "handle"}

PipelineBuildCalls == { [fn |-> "PipelineBuilder::build", builder |-> b] : b \in PipelineBuilders }

PipelineBuild ==
    /\ call.fn = "PipelineBuilder::build" /\ ret = << >>
    /\ ret' = << PipelineBuilder_build(call.builder), build_objects(call.builder) >>
    /\ UNCHANGED <<call, ctx>>
    /\ UNCHANGED not_setv

\* ------------------------------------------------------------------------
\* Swapchain parameters (vulkan/swapchain.rs)
\* ------------------------------------------------------------------------

\* Width of the model's u32: values are 0 .. 2^U32Bits - 1, arithmetic is
\* modulo 2^U32Bits.
U32Bits == 16

U32_MAX == 2 ^ U32Bits - 1

Extent2D(width, height) == [width |-> width, height |-> height]

clamp_NoUpper(v, min, max) == IF v < min THEN min ELSE v

\* u32::clamp, for min <= max.
clamp(v, min, max) == IF v < min THEN min ELSE IF v > max THEN max ELSE v

\* Swapchain::select_swap_extent.
select_swap_extent(caps, win_size) ==
    IF caps.current_extent.height = U32_MAX
      THEN Extent2D(clamp(win_size.width, caps.min_image_extent.width,
                          caps.max_image_extent.width),
                    clamp(win_size.height, caps.min_image_extent.height,
                          caps.max_image_extent.height))
      ELSE caps.current_extent

\* Widths and heights of extents and window sizes.
Widths == { 1, 100, 4096 }

Heights == { 1, 50, 4096 }

\* Current extents a surface reports: the special value (u32::MAX, u32::MAX)
\* or a concrete extent.
CurrentExtents ==
    { Extent2D(U32_MAX, U32_MAX), Extent2D(800, 600), Extent2D(100, 50) }

\* Surface capabilities as far as select_swap_extent reads them;
\* min_image_extent <= max_image_extent component-wise.
ExtentCaps ==
    { c \in [current_extent : CurrentExtents,
             min_image_extent : { Extent2D(w, h) : w \in Widths, h \in Heights },
             max_image_extent : { Extent2D(w, h) : w \in Widths, h \in Heights }] :
        /\ c.min_image_extent.width <= c.max_image_extent.width
        /\ c.min_image_extent.height <= c.max_image_extent.height }

SwapExtentCalls ==
    { [fn |-> "select_swap_extent", caps |-> c, win_size |-> Extent2D(w, h)] :
        c \in ExtentCaps, w \in Widths, h \in Heights }

SelectSwapExtent ==
    /\ call.fn = "select_swap_extent" /\ ret = << >>
    /\ ret' = << select_swap_extent(call.caps, call.win_size) >>
    /\ UNCHANGED <<call, ctx>>
    /\ UNCHANGED not_setv

\* The outcome of a function that can panic.
Panic(msg) == [tag |-> "Panic", val |-> None, err |-> msg]

\* select_image_count: "A max of zero indicates no limit."
Limit(desired, max_count) ==
    IF max_count = 0 THEN desired ELSE Min(desired, max_count)

\* Swapchain::select_image_count. `min_image_count + 1` is an unchecked u32
\* addition: with overflow checks it panics on overflow, without it wraps.
select_image_count(caps, overflow_checks) ==
    IF caps.min_image_count + 1 > U32_MAX /\ overflow_checks
      THEN Panic("attempt to add with overflow")
      ELSE Ok(Limit((caps.min_image_count + 1) % (2 ^ U32Bits), caps.max_image_count))

\* Surface capabilities as far as select_image_count reads them: at least one
\* image, and a maximum that is 0 (no limit) or not below the minimum.
ImageCountCaps ==
    { c \in [min_image_count : { 1, 2, 8, U32_MAX - 1, U32_MAX },
             max_image_count : { 0, 2, 3, 8, U32_MAX }] :
        c.max_image_count = 0 \/ c.min_image_count <= c.max_image_count }

ImageCountCalls == { [fn |-> "select_image_count", caps |-> c] : c \in ImageCountCaps }

SelectImageCount ==
    /\ call.fn = "select_image_count" /\ ret = << >>
    /\ \E overflow_checks \in BOOLEAN :
         ret' = << select_image_count(call.caps, overflow_checks) >>
    /\ UNCHANGED <<call, ctx>>
    /\ UNCHANGED not_setv

SharingRequired_Never(graphics_idx, present_idx) == FALSE

\* Swapchain::new: image_sharing_required.
SharingRequired(graphics_idx, present_idx) == graphics_idx # present_idx

\* Swapchain::new: the sharing part of SwapchainCreateInfoKHR.
SharingInfo(graphics_idx, present_idx) ==
    IF SharingRequired(graphics_idx, present_idx)
      THEN [image_sharing_mode |-> "CONCURRENT",
            queue_family_indices |-> << graphics_idx, present_idx >>]
      ELSE [image_sharing_mode |-> "EXCLUSIVE", queue_family_indices |-> << >>]

\* Swapchain::new for a device with the given queue family indices and the
\* answers `a` of the driver; `info` is the create info handed to
\* create_swapchain, `leaked` says whether the swapchain handle was created
\* and given up without destroy_swapchain.
Swapchain_new(graphics_idx, present_idx, a) ==
    LET info == SharingInfo(graphics_idx, present_idx)
    IN  IF ~a.create_ok
          THEN [tag |-> "Err", err |-> "create_swapchain", info |-> info, leaked |-> FALSE]
        ELSE IF ~a.images_ok
          THEN [tag |-> "Err", err |-> "get_swapchain_images", info |-> info, leaked |-> TRUE]
        ELSE IF ~a.views_ok
          THEN [tag |-> "Err", err |-> "create_image_view", info |-> info, leaked |-> TRUE]
        ELSE [tag |-> "Ok", err |-> "", info |-> info, leaked |-> FALSE]

FamilyIndices == 0 .. (MaxFamilies - 1)

SwapchainNewCalls ==
    { [fn |-> "Swapchain::new", graphics_idx |-> g, present_idx |-> p, answers |-> a] :
        g \in FamilyIndices, p \in FamilyIndices,
        a \in [create_ok : BOOLEAN, images_ok : BOOLEAN, views_ok : BOOLEAN] }

SwapchainNew ==
    /\ call.fn = "Swapchain::new" /\ ret = << >>
    /\ ret' = << Swapchain_new(call.graphics_idx, call.present_idx, call.answers) >>
    /\ UNCHANGED <<call, ctx>>
    /\ UNCHANGED not_setv

\* ------------------------------------------------------------------------
\* Device::new (vulkan/device.rs:46-101)
\* ------------------------------------------------------------------------

PresentIsNew_IgnoreTransfer(graphics_family, transfer_family, present_family) ==
    present_family # graphics_family

\* Device::new: the condition for the present family's own request.
PresentIsNew(graphics_family, transfer_family, present_family) ==
    present_family # graphics_family /\ present_family # transfer_family

\* Device::new: the family indices of queue_infos, in push order.
queue_infos(graphics_family, transfer_family, present_family) ==
    << graphics_family >>
    \o (IF transfer_family # graphics_family THEN << transfer_family >> ELSE << >>)
    \o (IF PresentIsNew(graphics_family, transfer_family, present_family)
          THEN << present_family >> ELSE << >>)

\* Device::new: the requests handed to create_device, and its result.
Device_new(graphics_family, transfer_family, present_family, create_ok) ==
    [tag |-> IF create_ok THEN "Ok" ELSE "Err",
     err |-> IF create_ok THEN "" ELSE "create_device",
     queue_infos |-> queue_infos(graphics_family, transfer_family, present_family)]

DeviceNewCalls ==
    { [fn |-> "Device::new", graphics_family |-> g, transfer_family |-> t,
       present_family |-> p, create_ok |-> ok] :
        g \in FamilyIndices, t \in FamilyIndices, p \in FamilyIndices, ok \in BOOLEAN }

DeviceNew ==
    /\ call.fn = "Device::new" /\ ret = << >>
    /\ ret' = << Device_new(call.graphics_family, call.transfer_family,
                            call.present_family, call.create_ok) >>
    /\ UNCHANGED <<call, ctx>>
    /\ UNCHANGED not_setv

\* ------------------------------------------------------------------------
\* UniformBuffer (renderer/buffer.rs)
\* ------------------------------------------------------------------------

\* Width of the model's usize: values are 0 .. 2^UsizeBits - 1, unchecked
\* arithmetic panics on overflow in a build with overflow checks and is
\* modulo 2^UsizeBits in a build without.
UsizeBits == 6

USIZE_MAX == 2 ^ UsizeBits - 1

\* No type is larger than isize::MAX bytes.
ISIZE_MAX == 2 ^ (UsizeBits - 1) - 1

\* Most elements of a uniform buffer.
MaxCount == 3

\* `&` and `!` on usize.
RECURSIVE BitAnd(_, _)
BitAnd(x, y) ==
    IF x = 0 \/ y = 0 THEN 0
    ELSE (x % 2) * (y % 2) + 2 * BitAnd(x \div 2, y \div 2)

BitNot(x) == USIZE_MAX - x

\* get_stride: (struct_size + min_align - 1) & !(min_align - 1)
get_stride(struct_size, min_align, overflow_checks) ==
    IF overflow_checks /\ struct_size + min_align > USIZE_MAX
      THEN Panic("attempt to add with overflow")
    ELSE IF overflow_checks /\ min_align = 0
      THEN Panic("attempt to subtract with overflow")
    ELSE Ok(BitAnd((struct_size + min_align - 1) % (2 ^ UsizeBits),
                   BitNot((min_align - 1) % (2 ^ UsizeBits))))

\* UniformBuffer::new: the stride, `stride * count` (unchecked), then
\* Buffer::new and Buffer::allocate, which succeed or not (`created`).
UniformBuffer_new(struct_size, min_align, count, created, overflow_checks) ==
    LET stride == get_stride(struct_size, min_align, overflow_checks)
    IN  IF stride.tag # "Ok" THEN stride
        ELSE IF overflow_checks /\ stride.val * count > USIZE_MAX
          THEN Panic("attempt to multiply with overflow")
        ELSE IF ~created THEN Err("Buffer::new")
        ELSE Ok([ size |-> (stride.val * count) % (2 ^ UsizeBits),
                  count |-> count, stride |-> stride.val,
                  min_align |-> min_align, struct_size |-> struct_size ])

\* UniformBuffer::write.  The copy is checked against the mapped slab, which
\* is the buffer's allocation: `slack` bytes longer than the buffer.
UniformBuffer_write(ub, idx, slack, overflow_checks) ==
    IF ~(idx < ub.count) THEN Panic("assertion failed: idx < self.count")
    ELSE IF overflow_checks /\ ub.stride * idx > USIZE_MAX
      THEN Panic("attempt to multiply with overflow")
    ELSE LET offset == (ub.stride * idx) % (2 ^ UsizeBits)
         IN  IF offset + ub.struct_size > ub.size + slack
               THEN Err("copy_to_offset_with_align")
               ELSE Ok([offset |-> offset, range |-> ub.struct_size])

\* UniformBuffer::descriptor_info
descriptor_info(ub, idx, overflow_checks) ==
    IF overflow_checks /\ idx * ub.stride > USIZE_MAX
      THEN Panic("attempt to multiply with overflow")
      ELSE Ok([ offset |-> (idx * ub.stride) % (2 ^ UsizeBits),
                range |-> ub.struct_size ])

\* min_uniform_buffer_offset_alignment: a power of two.
Alignments == { 2 ^ k : k \in 0 .. (UsizeBits - 1) }

GetStrideCalls ==
    [fn : {"get_stride"}, struct_size : 1 .. ISIZE_MAX, min_align : Alignments]

\* Element sizes of the uniform buffers built.
StructSizes == { 1, 3, ISIZE_MAX }

UniformBufferCalls ==
    [fn : {"UniformBuffer::write", "UniformBuffer::descriptor_info"},
     struct_size : StructSizes, min_align : Alignments,
     count : 0 .. MaxCount, idx : 0 .. MaxCount]

GetStride ==
    /\ call.fn = "get_stride" /\ ret = << >>
    /\ \E overflow_checks \in BOOLEAN :
         ret' = << get_stride(call.struct_size, call.min_align, overflow_checks) >>
    /\ UNCHANGED <<call, ctx>>
    /\ UNCHANGED not_setv

\* What a call on the buffer UniformBuffer::new returned gives; without a
\* buffer, new's failure.
OnBuffer(new, used) == << new, IF new.tag = "Ok" THEN used ELSE new >>

UniformBufferWrite ==
    /\ call.fn = "UniformBuffer::write" /\ ret = << >>
    /\ \E created, overflow_checks \in BOOLEAN, slack \in {0, call.min_align} :
         LET new == UniformBuffer_new(call.struct_size, call.min_align, call.count,
                                      created, overflow_checks)
         IN  ret' = OnBuffer(new, UniformBuffer_write(new.val, call.idx, slack,
                                                      overflow_checks))
    /\ UNCHANGED <<call, ctx>>
    /\ UNCHANGED not_setv

UniformBufferDescriptorInfo ==
    /\ call.fn = "UniformBuffer::descriptor_info" /\ ret = << >>
    /\ \E created, overflow_checks \in BOOLEAN :
         LET new == UniformBuffer_new(call.struct_size, call.min_align, call.count,
                                      created, overflow_checks)
         IN  ret' = OnBuffer(new, descriptor_info(new.val, call.idx, overflow_checks))
    /\ UNCHANGED <<call, ctx>>
    /\ UNCHANGED not_setv

\* ------------------------------------------------------------------------
\* read_spirv (vulkan/util.rs:11-47, vulkan/context.rs:78-114)
\* ------------------------------------------------------------------------

\* Longest file read, in bytes.
MaxFileLen == 8

\* Width of the model's bytes: four of them make a u32.
ByteBits == U32Bits \div 4

ByteValues == { 1, 2 ^ ByteBits - 1 }

from_be_bytes(bytes) ==
    bytes[4] + (2 ^ ByteBits) * (bytes[3] + (2 ^ ByteBits) * (bytes[2]
      + (2 ^ ByteBits) * bytes[1]))

\* u32::from_le_bytes
from_le_bytes(bytes) ==
    bytes[1] + (2 ^ ByteBits) * (bytes[2] + (2 ^ ByteBits) * (bytes[3]
      + (2 ^ ByteBits) * bytes[4]))

SpirvResult(tag, err, words) == [tag |-> tag, err |-> err, words |-> words]

\* The loop of read_spirv: read_exact fills four bytes and a word is pushed;
\* UnexpectedEof (fewer than four bytes left) ends the loop, any other read
\* error is returned; read_error_at names the read_exact call that fails
\* that way (0: none).
RECURSIVE ReadWords(_, _, _, _)
ReadWords(file, pos, data, read_error_at) ==
    IF Len(data) + 1 = read_error_at THEN SpirvResult("Err", "io error", << >>)
    ELSE IF pos + 4 > Len(file) THEN SpirvResult("Ok", "", data)
    ELSE ReadWords(file, pos + 4,
                   Append(data, from_le_bytes(SubSeq(file, pos + 1, pos + 4))),
                   read_error_at)

\* read_spirv for the bytes `file` and the answers `io` of the file system.
read_spirv(file, io) ==
    IF ~io.open_ok THEN SpirvResult("Err", "io error", << >>)
    ELSE IF ~io.seek_ok THEN SpirvResult("Err", "io error", << >>)
    ELSE IF ~io.rewind_ok THEN SpirvResult("Err", "io error", << >>)
    ELSE IF Len(file) % 4 # 0
      THEN SpirvResult("Err", "SPIR-V file size was not a multiple of 4", << >>)
    ELSE ReadWords(file, 0, << >>, io.read_error_at)

\* The files read and the file system's answers: everything succeeds, or
\* one of open, seek, rewind or the k-th read_exact fails.
SpirvFiles == UNION { [ 1 .. n -> ByteValues ] : n \in 0 .. MaxFileLen }

IoAnswers ==
    { a \in [open_ok : BOOLEAN, seek_ok : BOOLEAN, rewind_ok : BOOLEAN,
             read_error_at : 0 .. 2] :
        Cardinality({ x \in { <<1, a.open_ok>>, <<2, a.seek_ok>>, <<3, a.rewind_ok>>,
                                 <<4, a.read_error_at = 0>> } : ~x[2] }) <= 1 }

ReadSpirvCalls ==
    { [fn |-> "read_spirv", file |-> f, io |-> a] : f \in SpirvFiles, a \in IoAnswers }

ReadSpirv ==
    /\ call.fn = "read_spirv" /\ ret = << >>
    /\ ret' = << read_spirv(call.file, call.io) >>
    /\ UNCHANGED <<call, ctx>>
    /\ UNCHANGED not_setv

\* No selection function called, Context::new not running.
NoCall == [fn |-> "none"]
NoCtx == [pc |-> "none"]

SetupInit ==
    /\ call = NoCall
    /\ ret = << >>
    /\ ctx = NoCtx

RendererInit ==
    /\ pc = "idle"
    /\ result = "none"
    /\ frame = 0
    /\ frame_idx = 0
    /\ fence = [ s \in Slots |-> TRUE ]
    /\ cmd = [ s \in Slots |-> "initial" ]
    /\ gpu = << >>
    /\ ops = << >>
    /\ swap_image_idx = -1
    /\ sem = [ s \in Slots |-> [swap_acquired |-> "unsignaled",
                                render_complete |-> "unsignaled"] ]
    /\ submitted = FALSE

\* The process as main starts it: App { window: None }.
Init ==
    /\ app = "start"
    /\ alive = {}
    /\ dropq = << >>
    /\ drop_log = << >>
    /\ idle_waited = FALSE
    /\ RendererInit
    /\ BufferInit
    /\ SetupInit

RenderStep ==
    \/ \E ok \in BOOLEAN : FenceReset(ok)
    \/ \E ok \in BOOLEAN : CmdBegin(ok)
    \/ \E ok \in BOOLEAN, img \in Images : AcquireImage(ok, img)
    \/ RecordDraw
    \/ \E ok \in BOOLEAN : CmdEnd(ok)
    \/ \E ok \in BOOLEAN : QueueSubmit(ok)
    \/ \E ok \in BOOLEAN : QueuePresent(ok)
    \/ GpuComplete

Next ==
    \/ Resumed
    \/ \E k \in 0 .. (Len(CreationSteps) - 3) : ResumedPanic(k)
    \/ \E ok \in BOOLEAN : AboutToWait(ok)
    \/ RenderStep
    \/ RenderUnwrapPanic
    \/ CloseRequested
    \/ \E ok \in BOOLEAN : Exiting(ok)
    \/ PanicUnwind
    \/ PanicAbort
    \/ DropStep
    \/ Exit

\* The application: main.rs drives the Renderer.
Spec == Init /\ [][Next]_vars

\* The Renderer alone, after Renderer::new, driven by a caller that calls
\* render again whatever the previous call returned.
InitRenderer ==
    /\ app = "running"
    /\ alive = AllObjects
    /\ dropq = << >>
    /\ drop_log = << >>
    /\ idle_waited = FALSE
    /\ RendererInit
    /\ BufferInit
    /\ SetupInit

NextRenderer ==
    \/ \E ok \in BOOLEAN : FenceWait(ok)
    \/ RenderStep

SpecRenderer == InitRenderer /\ [][NextRenderer]_vars

\* A holder of the Context creates, allocates, fills and drops Buffers and
\* a DepthBuffer, in any order and with any call failing.
NextBuffer ==
    \/ \E b \in BufIds, size \in BufSizes, ok \in BOOLEAN : BufferNew(b, size, ok)
    \/ \E b \in BufIds, alloc_ok, bind_ok, mappable \in BOOLEAN :
          Allocate(b, alloc_ok, bind_ok, mappable)
    \/ \E b \in BufIds, alloc_ok, bind_ok \in BOOLEAN : AllocateFull(b, alloc_ok, bind_ok)
    \/ \E b \in BufIds, len \in 0 .. MaxLen, elem \in ElemSizes :
          UpdateMappedData(b, len, elem)
    \/ \E b \in BufIds : BufferDrop(b)
    \/ \E fail \in 0 .. Len(DepthSteps) : DepthBufferNew(fail)
    \/ DepthBufferDrop

SpecBuffer == InitRenderer /\ [][NextBuffer]_vars

\* The selection functions, each called once with arguments drawn from
\* the tables above.
FnCalls ==
    PresentFamilyCalls \cup TransferFamilyCalls \cup InstanceNewCalls
    \cup PhysicalDeviceNewCalls \cup PipelineBuildCalls
    \cup SwapExtentCalls \cup ImageCountCalls \cup SwapchainNewCalls
    \cup DeviceNewCalls \cup ReadSpirvCalls
    \cup GetStrideCalls \cup UniformBufferCalls

InitFn ==
    /\ app = "start"
    /\ alive = {}
    /\ dropq = << >>
    /\ drop_log = << >>
    /\ idle_waited = FALSE
    /\ RendererInit
    /\ BufferInit
    /\ call \in FnCalls
    /\ ret = << >>
    /\ ctx = NoCtx

NextFn ==
    \/ SelectPresentFamily
    \/ SelectTransferFamily
    \/ InstanceNew
    \/ PhysicalDeviceNew
    \/ PipelineBuild
    \/ SelectSwapExtent
    \/ SelectImageCount
    \/ SwapchainNew
    \/ DeviceNew
    \/ ReadSpirv
    \/ GetStride
    \/ UniformBufferWrite
    \/ UniformBufferDescriptorInfo

SpecFn == InitFn /\ [][NextFn]_vars

\* ------------------------------------------------------------------------
\* Context::new (vulkan/context.rs:116-161) with PhysicalDevice::select_device
\* (vulkan/phys_device.rs:22-37), step by step
\* ------------------------------------------------------------------------

\* Most physical devices enumerate_physical_devices reports.
MaxDevices == 2

\* The state of a Context::new call: the step it is at, the objects its
\* locals hold in creation order, how it ended, and the iteration of
\* select_device: the number n of device handles, the number idx of devices
\* visited, the number skipped, the device visited last with the tag of its
\* PhysicalDevice::new result, and the index select_device returned.
ContextStart ==
    [pc |-> "instance", created |-> << >>, failed_step |-> "",
     result |-> [tag |-> "none", val |-> None, err |-> ""],
     n |-> 0, idx |-> 0, skipped |-> 0, dev |-> GoodDevice, dev_tag |-> "none",
     selected |-> None, phys |-> NoPhys]

not_ctx == <<rend, bufv, call, ret>>

\* The Arc locals of Context::new in declaration order.
ContextLocals == [ i \in 1 .. Len(ctx.created) |-> Arc(ctx.created[i]) ]

\* A step succeeded and bound a new local.
ContextCreated(name, next_pc) ==
    /\ ctx' = [ctx EXCEPT !.pc = next_pc, !.created = Append(@, Obj(name))]
    /\ alive' = alive \cup {Obj(name)}
    /\ UNCHANGED <<app, dropq, drop_log, idle_waited>>

\* `?` on an Err: new returns the error, its locals are dropped in reverse
\* declaration order.
ContextReturnErr(step, err) ==
    /\ ctx' = [ctx EXCEPT !.pc = "failed", !.failed_step = step, !.result = Err(err)]
    /\ app' = "dropping"
    /\ dropq' = DropSeq(Reverse(ContextLocals), alive)
    /\ UNCHANGED <<alive, drop_log, idle_waited>>

\* `expect` on an Err: new panics.
ContextPanic(step, msg) ==
    /\ ctx' = [ctx EXCEPT !.pc = "panicked", !.failed_step = step, !.result = Panic(msg)]
    /\ app' = "panic"
    /\ UNCHANGED <<alive, dropq, drop_log, idle_waited>>

\* context.rs:122: Arc::new(Instance::new(display_handle)?)
ContextInstance ==
    /\ ctx.pc = "instance"
    /\ \E a \in InstanceAnswers :
         IF Instance_new(a).tag = "Ok"
           THEN ContextCreated("instance", "surface")
           ELSE ContextReturnErr("instance", Instance_new(a).err)
    /\ UNCHANGED not_ctx

\* context.rs:124-128: Arc::new(Surface::new(..)?)
ContextSurface ==
    /\ ctx.pc = "surface"
    /\ \E ok \in BOOLEAN :
         IF ok THEN ContextCreated("surface", "select_device")
         ELSE ContextReturnErr("surface", "create_surface")
    /\ UNCHANGED not_ctx

\* phys_device.rs:26: instance.enumerate_physical_devices()?
SelectDeviceEnumerate ==
    /\ ctx.pc = "select_device"
    /\ \E ok \in BOOLEAN, n \in 0 .. MaxDevices :
         IF ok
           THEN /\ ctx' = [ctx EXCEPT !.pc = "next_device", !.n = n]
                /\ UNCHANGED <<app, alive, dropq, drop_log, idle_waited>>
           ELSE ContextReturnErr("select_device", "enumerate_physical_devices")
    /\ UNCHANGED not_ctx

Accepts_Any(r) == TRUE

\* phys_device.rs:29-33: `.ok()` keeps the devices PhysicalDevice::new built.
Accepts(r) == r.tag = "Ok"

\* phys_device.rs:28-36: devices.next() builds the next device; the first
\* one accepted is returned, a rejected one is reported and skipped.
SelectDeviceNext ==
    /\ ctx.pc = "next_device"
    /\ ctx.idx < ctx.n
    /\ \E d \in Devices :
         ctx' = IF Accepts(PhysicalDevice_new(d))
                  THEN [ctx EXCEPT !.pc = "device", !.idx = @ + 1, !.dev = d,
                                   !.dev_tag = PhysicalDevice_new(d).tag,
                                   !.selected = ctx.idx + 1,
                                   !.phys = PhysicalDevice_new(d).phys]
                  ELSE [ctx EXCEPT !.idx = @ + 1, !.dev = d,
                                   !.dev_tag = PhysicalDevice_new(d).tag,
                                   !.skipped = @ + 1]
    /\ UNCHANGED <<app, alive, dropq, drop_log, idle_waited>>
    /\ UNCHANGED not_ctx

\* phys_device.rs:36 with no device left: Ok(None); context.rs:131:
\* .ok_or(ContextCreateError::NoDevice)?
SelectDeviceNone ==
    /\ ctx.pc = "next_device"
    /\ ctx.idx = ctx.n
    /\ ContextReturnErr("select_device", "NoDevice")
    /\ UNCHANGED not_ctx

\* context.rs:133: Arc::new(Device::new(instance.clone(), phys_device)?)
ContextDevice ==
    /\ ctx.pc = "device"
    /\ \E ok \in BOOLEAN :
         IF Device_new(ctx.phys.graphics_family, ctx.phys.transfer_family,
                       ctx.phys.present_family, ok).tag = "Ok"
           THEN ContextCreated("device", "swapchain")
           ELSE ContextReturnErr("device", "create_device")
    /\ UNCHANGED not_ctx

\* context.rs:135-140: Arc::new(Swapchain::new(..)?)
ContextSwapchain ==
    /\ ctx.pc = "swapchain"
    /\ \E a \in [create_ok : BOOLEAN, images_ok : BOOLEAN, views_ok : BOOLEAN] :
         LET r == Swapchain_new(ctx.phys.graphics_family, ctx.phys.present_family, a)
         IN  IF r.tag = "Ok"
               THEN ContextCreated("swapchain", "vertex_shader")
               ELSE ContextReturnErr("swapchain", r.err)
    /\ UNCHANGED not_ctx

\* context.rs:142-145: read_spirv(..).expect(..), for the vertex and then
\* the fragment shader.
ContextReadSpirv ==
    /\ ctx.pc \in { "vertex_shader", "fragment_shader" }
    /\ \E ok \in BOOLEAN :
         IF ok
           THEN /\ ctx' = [ctx EXCEPT !.pc = IF @ = "vertex_shader"
                                               THEN "fragment_shader" ELSE "pipeline"]
                /\ UNCHANGED <<app, alive, dropq, drop_log, idle_waited>>
           ELSE ContextPanic(ctx.pc, "vertex shader loading should succeed")
    /\ UNCHANGED not_ctx

\* context.rs:147-160: the builder gets all four fields; build(..).expect(..);
\* then Ok(Self { .. }) moves the four Arcs into the Context, and the local
\* `pipeline` is dropped as new returns.
ContextPipeline ==
    /\ ctx.pc = "pipeline"
    /\ \E b \in PipelineBuilders :
         /\ b.vertex_shader_data /\ b.fragment_shader_data
         /\ b.color_format /\ b.depth_format
         /\ IF PipelineBuilder_build(b).tag = "Ok"
              THEN /\ ctx' = [ctx EXCEPT !.pc = "returned", !.result = Ok(0)]
                   /\ alive' = alive \cup {Obj("context")}
                   /\ drop_log' = Append(drop_log, Obj("pipeline"))
                   /\ UNCHANGED <<app, dropq, idle_waited>>
              ELSE ContextPanic("pipeline", "pipeline creation should succeed")
    /\ UNCHANGED not_ctx

\* Window::new (window.rs:22-33) has created the native window and calls
\* Context::new.
InitContext ==
    /\ app = "start"
    /\ alive = {Obj("handle")}
    /\ dropq = << >>
    /\ drop_log = << >>
    /\ idle_waited = FALSE
    /\ RendererInit
    /\ BufferInit
    /\ call = NoCall
    /\ ret = << >>
    /\ ctx = ContextStart

NextContext ==
    \/ ContextInstance
    \/ ContextSurface
    \/ SelectDeviceEnumerate
    \/ SelectDeviceNext
    \/ SelectDeviceNone
    \/ ContextDevice
    \/ ContextSwapchain
    \/ ContextReadSpirv
    \/ ContextPipeline
    \/ PanicUnwind
    \/ PanicAbort
    \/ DropStep

SpecContext == InitContext /\ [][NextContext]_vars

\* ------------------------------------------------------------------------
\* Properties of the frame ring (SpecRenderer)
\* ------------------------------------------------------------------------
TickOver == pc = "idle" /\ result # "none"

OpDone(name) == \E i \in DOMAIN ops : ops[i].op = name /\ ops[i].ok

\* C1, as stated: frame_idx takes the values 0,1,2,0,... : a tick whose
\* command buffer was successfully submitted advances frame_idx by one
\* modulo 3, and a tick without a successful submission leaves it unchanged.
C1_AdvancesPerSubmission ==
    TickOver =>
        frame_idx = IF OpDone("queue_submit2")
                      THEN (frame + 1) % 3
                      ELSE frame

\* C1, amended: frame_idx stays in 0..2, does not change while a tick runs,
\* advances by one modulo 3 in exactly the ticks that return Ok (submission
\* and present both succeeded) and is unchanged by every tick that returns
\* Err, a tick whose submission succeeded but whose present failed included.
C1_AdvancesPerCompletedTick ==
    /\ frame_idx \in 0 .. 2
    /\ pc # "idle" => frame_idx = frame
    /\ TickOver =>
         /\ result = "Ok" <=> (OpDone("queue_submit2") /\ OpDone("queue_present"))
         /\ frame_idx = IF result = "Ok" THEN (frame + 1) % 3 ELSE frame

\* C1 witness: the tick on slot 2 completed and the index wrapped to 0.
C1_Witness ==
    /\ TickOver /\ result = "Ok"
    /\ frame = 2 /\ frame_idx = 0

\* C2: at most FRAMES_IN_FLIGHT submissions are outstanding, none of them
\* twice for one slot, and from the successful fence wait until the
\* submission the slot's previous submission has retired, so its command
\* buffer is never begun or recorded while the GPU still executes it.
C2_BoundedFramesInFlight ==
    /\ Len(gpu) <= 3
    /\ \A i, j \in DOMAIN gpu : gpu[i] = gpu[j] => i = j
    /\ pc \in {"reset", "cb_begin", "acquire", "draw", "end", "submit"}
         => frame \notin Range(gpu)
    /\ \A s \in Slots : cmd[s] \in {"recording", "executable"} => s \notin Range(gpu)
    /\ \A s \in Slots : s \in Range(gpu) => ~fence[s]

\* C2 witness: slot 0 is being re-recorded after its earlier submission
\* retired, while the submissions of slots 1 and 2 are still outstanding.
C2_Witness ==
    /\ pc = "acquire" /\ frame = 0 /\ cmd[0] = "recording"
    /\ gpu = <<1, 2>>

\* C3: a reset of a fence directly follows a successful wait on that fence
\* in the same tick, and a failed wait is the last call of its tick: no
\* reset, recording, acquire, submit or present follows it.
C3_WaitThenReset ==
    \A i \in DOMAIN ops :
        /\ ops[i].op = "reset_fences" =>
             /\ i > 1
             /\ ops[i - 1].op = "wait_for_fences"
             /\ ops[i - 1].ok
             /\ ops[i - 1].fence = ops[i].fence
        /\ (ops[i].op = "wait_for_fences" /\ ~ops[i].ok) =>
             /\ i = Len(ops)
             /\ pc = "idle" /\ result = "Err"

\* C3 witness: a wait on the unsignaled fence of a slot whose submission is
\* still executing timed out, and the tick ended there.
C3_Witness ==
    /\ TickOver /\ result = "Err"
    /\ Len(ops) = 1 /\ ops[1].op = "wait_for_fences" /\ ~ops[1].ok
    /\ frame \in Range(gpu)

\* C9, as stated: before the render pass begins, the tick has recorded a
\* transition of the acquired swapchain image to color-attachment-optimal
\* and a transition of the depth image to depth-attachment-optimal.
C9_TransitionsBeforeRendering ==
    \A i \in DOMAIN ops :
        ops[i].op = "cmd_begin_rendering" =>
            /\ \E j \in 1 .. (i - 1) :
                  /\ ops[j].op = "cmd_pipeline_barrier2"
                  /\ ops[j].image = ops[i].color_image
                  /\ ops[j].new_layout = "COLOR_ATTACHMENT_OPTIMAL"
            /\ \E j \in 1 .. (i - 1) :
                  /\ ops[j].op = "cmd_pipeline_barrier2"
                  /\ ops[j].image = ops[i].depth_image
                  /\ ops[j].new_layout = "DEPTH_ATTACHMENT_OPTIMAL"

\* C10: the submission waits on the semaphore handed to acquire_image in
\* this tick, which is the swap_acquired semaphore of the tick's slot, at
\* the color-attachment-output stage, and signals that slot's
\* render_complete semaphore and fence; the present waits on the semaphore
\* the submission signals; every fence, semaphore and command buffer the
\* tick names belongs to the slot frame_idx selected.
C10_SameSlotSync ==
    /\ pc # "idle" => frame = frame_idx
    /\ \A i \in DOMAIN ops :
        /\ ops[i].op \in {"wait_for_fences", "reset_fences"} =>
             ops[i].fence = <<"fence", frame>>
        /\ ops[i].op = "acquire_next_image" =>
             ops[i].semaphore = <<"swap_acquired", frame>>
        /\ ops[i].op = "queue_submit2" =>
             /\ ops[i].wait.semaphore = <<"swap_acquired", frame>>
             /\ ops[i].wait.stage_mask = "COLOR_ATTACHMENT_OUTPUT"
             /\ \E j \in 1 .. (i - 1) :
                   /\ ops[j].op = "acquire_next_image" /\ ops[j].ok
                   /\ ops[j].semaphore = ops[i].wait.semaphore
             /\ ops[i].signal.semaphore = <<"render_complete", frame>>
             /\ ops[i].fence = <<"fence", frame>>
             /\ ops[i].cb = <<"command_buffer", frame>>
        /\ ops[i].op = "queue_present" =>
             /\ ops[i].wait = <<"render_complete", frame>>
             /\ \E j \in 1 .. (i - 1) :
                   /\ ops[j].op = "queue_submit2" /\ ops[j].ok
                   /\ ops[j].signal.semaphore = ops[i].wait

\* C10 witness: a tick on slot 1 submitted and presented.
C10_Witness ==
    /\ TickOver /\ result = "Ok" /\ frame = 1
    /\ OpDone("queue_submit2") /\ OpDone("queue_present")

\* ------------------------------------------------------------------------
\* Properties of shutdown and teardown (Spec)
\* ------------------------------------------------------------------------
Dropped == Range(drop_log)

\* C4, as stated: once a frame has been submitted, no buffer, image,
\* pipeline, command pool or frame-slot object is destroyed on any way out
\* of the application before a device-idle wait has completed.
C4_IdleBeforeDestroy ==
    \A o \in Dropped :
        ( /\ submitted
          /\ o[1] \in {"vertex_buffer", "index_buffer", "depth_buffer",
                       "graphics_pipeline", "command_pool", "fence",
                       "swap_acquired", "render_complete", "command_buffer"} )
        => idle_waited

\* C4 witness (the path on which the claim holds): the window was closed
\* after a submission, wait_idle returned and the teardown ran.
C4_Witness ==
    /\ app = "exited" /\ submitted /\ idle_waited
    /\ <<"fence", 0>> \in Dropped

CoreDrops ==
    SelectSeq(drop_log,
              LAMBDA o : o[1] \in {"swapchain", "device", "surface", "instance"})

FullTeardownOver == app = "exited" /\ Obj("window") \in Dropped

IsPrefix(p, q) == Len(p) <= Len(q) /\ \A i \in DOMAIN p : p[i] = q[i]

Needs(o) ==
    CASE o[1] = "surface" -> {Obj("instance"), Obj("handle")}
      [] o[1] = "device" -> {Obj("instance")}
      [] o[1] = "swapchain" -> {Obj("surface"), Obj("device")}
      [] o[1] \in {"fence", "swap_acquired", "render_complete", "command_pool",
                   "vertex_buffer", "index_buffer", "depth_buffer",
                   "graphics_pipeline"} -> {Obj("device")}
      [] o[1] = "command_buffer" -> {Obj("command_pool")}
      [] OTHER -> {}

\* C6, as stated: in every state of construction, rendering and teardown,
\* everything a live object depends on is alive too.
C6_DependenciesOutlive ==
    \A o \in alive : Needs(o) \subseteq alive

\* C6 witness: the teardown of a completely constructed application is
\* under way.
C6_Witness ==
    /\ app = "dropping" /\ Obj("window") \in Dropped
    /\ Obj("device") \in alive

\* ------------------------------------------------------------------------
\* Properties of Buffer and DepthBuffer memory (SpecBuffer)
\* ------------------------------------------------------------------------

\* The allocations held by a live Buffer or DepthBuffer.
OwnedAllocs ==
    ({ bufs[b].allocation : b \in BufIds } \cup {depth.allocation}) \ {0}

\* C7: every allocation obtained from the allocator is returned by exactly
\* one free before teardown: an allocation not yet freed is held by a live
\* Buffer or DepthBuffer (whose drop frees it), none is freed twice, and no
\* Buffer has more than one allocation bound to it.
C7_AllocationsPairedWithFree ==
    /\ heap \subseteq OwnedAllocs
    /\ \A a \in AllocIds : frees[a] <= 1 /\ (frees[a] = 1 => a \notin heap)
    /\ \A b \in BufIds : Cardinality(bufs[b].bound) <= 1

\* C8: update_mapped_data with a payload of len * size_of T bytes that
\* differs from the declared size of the buffer returns the size-mismatch
\* error, allocated or not, without a write to mapped memory and with the
\* allocation state and the handle of the buffer unchanged.
C8_SizeMismatchRejected ==
    [][ \A b \in BufIds :
          (last'.op = "update_mapped_data" /\ last'.buf = b
             /\ last'.data_size # bufs[b].size)
          => /\ last'.result = "size_mismatch"
             /\ ~last'.wrote
             /\ mem' = mem
             /\ bufs' = bufs /\ heap' = heap ]_vars

\* C8 witness: an allocated buffer whose memory was written before rejected
\* a payload shorter than its declared size.
C8_Witness ==
    /\ last.op = "update_mapped_data" /\ last.result = "size_mismatch"
    /\ bufs[last.buf].allocation # 0
    /\ mem[bufs[last.buf].allocation] # 0
    /\ last.data_size < bufs[last.buf].size

\* ------------------------------------------------------------------------
\* Properties of the selection functions (SpecFn)
\* ------------------------------------------------------------------------
Returned(fn) == call.fn = fn /\ ret # << >>

\* The families that can present, lowest index first.
CanPresent(support) ==
    SelectSeq([ i \in 1 .. Len(support) |-> i - 1 ], LAMBDA f : support[f + 1] = "yes")

NoQueryFails(support) == \A i \in DOMAIN support : support[i] # "err"

\* C11, as stated (for support queries that all succeed): the graphics
\* family when it can present, otherwise the first family that can present,
\* None only if no family can present.
C11_PresentFamilyFirst ==
    (Returned("select_present_family") /\ NoQueryFails(call.support)) =>
        ret[1] = IF call.support[call.graphics_family + 1] = "yes"
                   THEN [tag |-> "Ok", val |-> call.graphics_family, err |-> ""]
                   ELSE IF CanPresent(call.support) = << >>
                     THEN [tag |-> "Ok", val |-> -1, err |-> ""]
                     ELSE [tag |-> "Ok", val |-> CanPresent(call.support)[1], err |-> ""]

\* C11, amended: the graphics family when it can present and no query for
\* a lower family failed; else the error of a failed query; else the last
\* (highest-index) family that can present, None only if none can.
C11_PresentFamilyLast ==
    Returned("select_present_family") =>
        LET sup == call.support
            g == call.graphics_family
            can == CanPresent(sup)
        IN  ret[1] =
              IF sup[g + 1] = "yes" /\ \A i \in 1 .. g : sup[i] # "err"
                THEN [tag |-> "Ok", val |-> g, err |-> ""]
                ELSE IF ~NoQueryFails(sup)
                  THEN [tag |-> "Err", val |-> -1,
                        err |-> "get_physical_device_surface_support"]
                  ELSE IF can = << >>
                    THEN [tag |-> "Ok", val |-> -1, err |-> ""]
                    ELSE [tag |-> "Ok", val |-> can[Len(can)], err |-> ""]

\* C11 witness: the graphics family cannot present, two other families
\* can, and the higher of the two was returned.
C11_Witness ==
    /\ Returned("select_present_family")
    /\ call.graphics_family = 0
    /\ call.support = <<"no", "yes", "yes">>
    /\ ret[1].val = 2

\* C19: select_transfer_family returns the lowest transfer-capable family
\* other than the graphics family when there is one, the graphics family
\* otherwise; it always returns a family index.
C19_TransferFamily ==
    Returned("select_transfer_family") =>
        LET t == call.families
            g == call.graphics_family
            others == { i \in 0 .. (Len(t) - 1) : t[i + 1].transfer /\ i # g }
        IN  /\ ret[1] \in 0 .. (Len(t) - 1)
            /\ others # {} => ret[1] \in others /\ \A i \in others : ret[1] <= i
            /\ others = {} => ret[1] = g

\* C19 witness: the graphics family is family 1 and supports transfer,
\* family 0 does not, and family 2, which does, was returned.
C19_Witness ==
    /\ Returned("select_transfer_family")
    /\ call.graphics_family = 1
    /\ Len(call.families) = 3
    /\ call.families[2].transfer /\ ~call.families[1].transfer /\ call.families[3].transfer
    /\ ret[1] = 2

\* C13: with required extensions R and available extensions A, Instance::new
\* and PhysicalDevice::new fail on the extension check exactly when R \ A is
\* not empty (given the enumeration itself succeeded), and the unsupported
\* list they report holds every name of R \ A once, in the order of R, and
\* no other name.
C13_UnsupportedIsDifference ==
    LET Exact(list, R, A) ==
            /\ Range(list) = Range(R) \ A
            /\ \A i, j \in DOMAIN list : list[i] = list[j] => i = j
            /\ \A i, j \in DOMAIN list : i < j =>
                  \E k, l \in DOMAIN R : k < l /\ R[k] = list[i] /\ R[l] = list[j]
    IN  /\ (Returned("Instance::new")
               /\ call.answers.required_ok /\ call.answers.extensions_ok) =>
            LET R == << "VK_EXT_debug_utils" >> \o call.answers.surface_exts
                A == call.answers.available
            IN  /\ (ret[1].err = "required extensions were unsupported")
                      <=> (Range(R) \ A # {})
                /\ (Range(R) \ A # {}) =>
                      ret[1].tag = "Err" /\ Exact(ret[1].unsupported, R, A)
        /\ (Returned("PhysicalDevice::new") /\ call.device.extensions_ok) =>
            LET R == << "VK_KHR_swapchain", "VK_KHR_dynamic_rendering",
                        "VK_KHR_synchronization2" >>
                A == call.device.available
            IN  /\ (ret[1].err = "physical device extensions not supported")
                      <=> (Range(R) \ A # {})
                /\ (Range(R) \ A # {}) =>
                      ret[1].tag = "Err" /\ Exact(ret[1].unsupported, R, A)

\* C13 witness: a device that offers only the swapchain extension (and one
\* that is not required) was rejected with the two missing names.
C13_Witness ==
    /\ Returned("PhysicalDevice::new")
    /\ call.device.available = { "VK_KHR_swapchain", "VK_KHR_maintenance1" }
    /\ ret[1].unsupported = << "VK_KHR_dynamic_rendering", "VK_KHR_synchronization2" >>

\* The error build reports for the first missing field in the order vertex
\* shader, fragment shader, color format, depth format; "" if none is missing.
FirstMissingFieldError(b) ==
    IF ~b.vertex_shader_data THEN "no vertex shader specified"
    ELSE IF ~b.fragment_shader_data THEN "no fragment shader specified"
    ELSE IF ~b.color_format THEN "no color format specified!"
    ELSE IF ~b.depth_format THEN "no depth format specified"
    ELSE ""

\* C14 as stated: whenever a field is missing, build fails with the error
\* of the first missing field in the order vertex shader, fragment shader,
\* color format, depth format.
C14_FirstMissingField ==
    (Returned("PipelineBuilder::build") /\ FirstMissingFieldError(call.builder) # "") =>
        ret[1].tag = "Err" /\ ret[1].err = FirstMissingFieldError(call.builder)

\* C14: whenever a field is missing, build fails; the error is that of the
\* first missing field in the order vertex shader, fragment shader, color
\* format, depth format, except that with both shaders given and a shader
\* module failing to be created the error is the one of that creation, also
\* when a format is missing.
C14_FirstMissingFieldOrShaderModule ==
    (Returned("PipelineBuilder::build") /\ FirstMissingFieldError(call.builder) # "") =>
        LET b == call.builder
            modules_fail == /\ b.vertex_shader_data /\ b.fragment_shader_data
                            /\ ~(b.vertex_module_ok /\ b.fragment_module_ok)
        IN  /\ ret[1].tag = "Err"
            /\ ret[1].err = IF modules_fail THEN "create_shader_module"
                             ELSE FirstMissingFieldError(b)

\* C14 witness: a builder without fragment shader and without formats
\* failed with the fragment shader error.
C14_Witness ==
    /\ Returned("PipelineBuilder::build")
    /\ call.builder.vertex_shader_data /\ ~call.builder.fragment_shader_data
    /\ ~call.builder.color_format /\ ~call.builder.depth_format
    /\ ret[1] = Err("no fragment shader specified")

\* C16: when the current extent is the special value (u32::MAX, u32::MAX),
\* select_swap_extent returns the window's inner size with each component
\* brought into [min_image_extent, max_image_extent]; otherwise it returns
\* the current extent itself, whatever the window size.
C16_SwapExtent ==
    Returned("select_swap_extent") =>
        LET c == call.caps
            w == call.win_size
            Into(v, lo, hi) == IF v < lo THEN lo ELSE IF hi < v THEN hi ELSE v
        IN  IF c.current_extent = Extent2D(U32_MAX, U32_MAX)
              THEN /\ ret[1].width = Into(w.width, c.min_image_extent.width,
                                          c.max_image_extent.width)
                   /\ ret[1].height = Into(w.height, c.min_image_extent.height,
                                           c.max_image_extent.height)
              ELSE ret[1] = c.current_extent

\* C16 witness: both examples of the claim, and a window larger than the
\* maximum extent in one component only.
C16_Witness ==
    /\ Returned("select_swap_extent")
    /\ \/ /\ call.caps.current_extent.height = U32_MAX
          /\ call.win_size = Extent2D(100, 50)
          /\ call.caps.min_image_extent = Extent2D(1, 1)
          /\ call.caps.max_image_extent = Extent2D(4096, 4096)
          /\ ret[1] = Extent2D(100, 50)
       \/ /\ call.caps.current_extent = Extent2D(800, 600)
          /\ call.win_size = Extent2D(100, 50)
          /\ ret[1] = Extent2D(800, 600)

\* C16 witness of clamping: a window wider than the maximum extent and
\* lower than the minimum extent.
C16_WitnessClamped ==
    /\ Returned("select_swap_extent")
    /\ call.caps.current_extent.height = U32_MAX
    /\ call.win_size = Extent2D(4096, 1)
    /\ call.caps.min_image_extent = Extent2D(1, 50)
    /\ call.caps.max_image_extent = Extent2D(100, 4096)
    /\ ret[1] = Extent2D(100, 50)

\* C17: select_image_count returns min_image_count + 1 when max_image_count
\* is 0, and the smaller of min_image_count + 1 and max_image_count
\* otherwise, for all capability values; the result is never below
\* min_image_count.
C17_ImageCount ==
    Returned("select_image_count") =>
        LET min == call.caps.min_image_count
            max == call.caps.max_image_count
        IN  /\ ret[1].tag = "Ok"
            /\ ret[1].val = IF max = 0 THEN min + 1
                             ELSE IF min + 1 <= max THEN min + 1 ELSE max
            /\ ret[1].val >= min

\* C17 away from the overflow: for min_image_count below u32::MAX the
\* result is as stated.
C17_ImageCountNoOverflow ==
    (Returned("select_image_count") /\ call.caps.min_image_count < U32_MAX) =>
        LET min == call.caps.min_image_count
            max == call.caps.max_image_count
        IN  /\ ret[1].tag = "Ok"
            /\ ret[1].val = IF max = 0 THEN min + 1
                             ELSE IF min + 1 <= max THEN min + 1 ELSE max
            /\ ret[1].val >= min

\* C18: Swapchain::new asks for CONCURRENT sharing with the family index
\* list [graphics, present] exactly when the two indices differ, and for
\* EXCLUSIVE sharing exactly when they are equal.
C18_SharingMode ==
    Returned("Swapchain::new") =>
        LET info == ret[1].info
        IN  /\ info.image_sharing_mode \in { "CONCURRENT", "EXCLUSIVE" }
            /\ (info.image_sharing_mode = "CONCURRENT") <=> (call.graphics_idx # call.present_idx)
            /\ (info.image_sharing_mode = "EXCLUSIVE") <=> (call.graphics_idx = call.present_idx)
            /\ (info.image_sharing_mode = "CONCURRENT") =>
                  info.queue_family_indices = << call.graphics_idx, call.present_idx >>

\* C18 witness: graphics family 0 and present family 1 gave CONCURRENT with
\* the list [0, 1].
C18_Witness ==
    /\ Returned("Swapchain::new")
    /\ call.graphics_idx = 0 /\ call.present_idx = 1
    /\ ret[1].info = [image_sharing_mode |-> "CONCURRENT", queue_family_indices |-> << 0, 1 >>]

\* C20: the queue-create requests of Device::new have pairwise distinct
\* family indices, and these are exactly the graphics, transfer and present
\* families: between one and three requests.
C20_QueueInfosDistinct ==
    Returned("Device::new") =>
        LET q == ret[1].queue_infos
        IN  /\ \A i, j \in DOMAIN q : q[i] = q[j] => i = j
            /\ { q[i] : i \in DOMAIN q } =
                  { call.graphics_family, call.transfer_family, call.present_family }
            /\ Len(q) \in 1 .. 3

\* C20 witness: the present family equals the transfer family and differs
\* from the graphics family: two requests.
C20_Witness ==
    /\ Returned("Device::new")
    /\ call.graphics_family = 0 /\ call.transfer_family = 1 /\ call.present_family = 1
    /\ ret[1].queue_infos = << 0, 1 >>

\* ------------------------------------------------------------------------
\* Properties of Context::new and select_device (SpecContext)
\* ------------------------------------------------------------------------

\* The filters of device selection: every required device extension is
\* offered, some family has graphics, some family can present.
PassesFilters(d) ==
    /\ { "VK_KHR_swapchain", "VK_KHR_dynamic_rendering", "VK_KHR_synchronization2" }
          \subseteq d.available
    /\ \E i \in DOMAIN d.families : d.families[i].graphics
    /\ \E i \in DOMAIN d.support : d.support[i] = "yes"

\* No query of the device answers with an API error.
NoQueryError(d) ==
    /\ d.extensions_ok /\ d.caps_ok /\ d.formats_ok /\ d.modes_ok
    /\ \A i \in DOMAIN d.support : d.support[i] # "err"

\* C12: select_device visits the devices in enumeration order.  A device
\* that passes all filters and whose queries all succeed is returned at
\* once, so every device before it was skipped; a device is returned only
\* if it passes all filters; a device that fails a filter or has a query
\* answer with an API error is skipped and the enumeration goes on; when
\* every device was skipped the result is None.
C12_FirstPassingDevice ==
    /\ ctx.dev_tag # "none" =>
          /\ (PassesFilters(ctx.dev) /\ NoQueryError(ctx.dev)) => ctx.selected = ctx.idx
          /\ ctx.selected # -1 =>
                /\ PassesFilters(ctx.dev)
                /\ ctx.dev.extensions_ok /\ ctx.dev.caps_ok
                /\ ctx.dev.formats_ok /\ ctx.dev.modes_ok
                /\ ctx.selected = ctx.idx
                /\ ctx.skipped = ctx.idx - 1
          /\ ctx.selected = -1 =>
                /\ ~(PassesFilters(ctx.dev) /\ NoQueryError(ctx.dev))
                /\ ctx.skipped = ctx.idx
                /\ ctx.pc \in { "next_device", "failed" }
    /\ (ctx.failed_step = "select_device" /\ ctx.result.err = "NoDevice") =>
          ctx.selected = -1 /\ ctx.skipped = ctx.n /\ ctx.idx = ctx.n

\* C12 witness: of two devices the first lacks a required extension and was
\* skipped, the second was returned.
C12_Witness ==
    /\ ctx.n = 2 /\ ctx.skipped = 1 /\ ctx.selected = 2
    /\ PassesFilters(ctx.dev)

\* C12 witness of the empty result: two devices, both skipped, NoDevice.
C12_WitnessNone ==
    /\ ctx.n = 2 /\ ctx.skipped = 2 /\ ctx.result.err = "NoDevice"

\* Context::new has returned or unwound: nothing is left to drop.
ContextUnwound == app = "dropping" /\ dropq = << >>

\* C15: whichever step of Context::new fails, new returns an error value
\* (NoDevice when no device was selected), no Context exists, and the
\* objects created by the earlier steps are destroyed in reverse creation
\* order.
C15_FailureReturnsError ==
    ctx.failed_step # "" =>
        /\ ctx.result.tag = "Err"
        /\ (ctx.failed_step = "select_device" /\ ctx.idx = ctx.n /\ ctx.selected = -1
               /\ ctx.pc = "failed" /\ ctx.result.err # "enumerate_physical_devices")
              => ctx.result.err = "NoDevice"
        /\ <<"context", 0>> \notin alive
        /\ app # "aborted"
        /\ ContextUnwound =>
              /\ \A i \in DOMAIN ctx.created : ctx.created[i] \notin alive
              /\ SelectSeq(drop_log, LAMBDA o : o \in Range(ctx.created))
                    = Reverse(ctx.created)

\* C15 for the steps that use `?` (instance, surface, device selection,
\* logical device, swapchain): new returns an error value and the earlier
\* objects are destroyed in reverse creation order.
C15_EarlyStepsReturnError ==
    (ctx.failed_step \in { "instance", "surface", "select_device", "device", "swapchain" }) =>
        /\ ctx.result.tag = "Err"
        /\ <<"context", 0>> \notin alive
        /\ ContextUnwound =>
              /\ \A i \in DOMAIN ctx.created : ctx.created[i] \notin alive
              /\ drop_log = Reverse(ctx.created)

\* A failed swapchain step has destroyed device, surface and instance, in
\* this order.
C15_WitnessSwapchain ==
    /\ ctx.failed_step = "swapchain" /\ ContextUnwound
    /\ drop_log = << <<"device", 0>>, <<"surface", 0>>, <<"instance", 0>> >>

\* ------------------------------------------------------------------------
\* Properties of read_spirv, Instance::new and get_stride (SpecFn)
\* ------------------------------------------------------------------------

\* C21: for a file that can be opened and read, read_spirv fails with the
\* format error and returns no words whenever the byte length is not a
\* multiple of 4; otherwise it returns exactly length / 4 words, word i
\* (from 0) being bytes 4i .. 4i+3 decoded least significant byte first.
C21_ReadSpirv ==
    (Returned("read_spirv") /\ call.io.open_ok /\ call.io.seek_ok
       /\ call.io.rewind_ok /\ call.io.read_error_at = 0) =>
        LET f == call.file
            r == ret[1]
        IN  IF Len(f) % 4 # 0
              THEN /\ r.tag = "Err"
                   /\ r.err = "SPIR-V file size was not a multiple of 4"
                   /\ r.words = << >>
              ELSE /\ r.tag = "Ok"
                   /\ Len(r.words) = Len(f) \div 4
                   /\ \A i \in 0 .. (Len(r.words) - 1) :
                         r.words[i + 1] =
                           f[4 * i + 1] + f[4 * i + 2] * 2 ^ ByteBits
                           + f[4 * i + 3] * 2 ^ (2 * ByteBits)
                           + f[4 * i + 4] * 2 ^ (3 * ByteBits)

\* C21 witness: eight bytes gave two words, the first from bytes 0..3 with
\* byte 0 least significant.
C21_Witness ==
    /\ Returned("read_spirv")
    /\ Len(call.file) = 8
    /\ SubSeq(call.file, 1, 4) = << 2 ^ ByteBits - 1, 1, 1, 1 >>
    /\ ret[1].tag = "Ok" /\ Len(ret[1].words) = 2
    /\ ret[1].words[1] % (2 ^ ByteBits) = 2 ^ ByteBits - 1

\* C21 witness of the format error: a file of six bytes.
C21_WitnessFormatError ==
    /\ Returned("read_spirv")
    /\ Len(call.file) = 6
    /\ ret[1].err = "SPIR-V file size was not a multiple of 4"

\* ------------------------------------------------------------------------
\* Further properties of Renderer::render (SpecRenderer, Spec)
\* ------------------------------------------------------------------------

\* The state of slot s: Idle (its command buffer is not in use), Recording
\* (begun, not yet submitted) or Submitted (pending on the graphics queue).
SlotState(s) ==
    CASE cmd[s] \in { "initial", "invalid" }      -> "Idle"
      [] cmd[s] \in { "recording", "executable" } -> "Recording"
      [] cmd[s] = "pending"                        -> "Submitted"

\* C22: a tick that returned Ok made its calls in this order: fence wait,
\* fence reset, begin command buffer (one-time-submit), acquire image,
\* transition to color-attachment-optimal, begin rendering and the draw
\* commands, end rendering, transition color-attachment-optimal to
\* present-source, end command buffer, submit, present, and then advanced
\* frame_idx; and every change of a slot's state is Idle -> Recording,
\* Recording -> Submitted or Submitted -> Idle.
C22_TickOrder ==
    /\ [](TickOver /\ result = "Ok" =>
            /\ [ i \in DOMAIN ops |-> ops[i].op ] =
                  << "wait_for_fences", "reset_fences", "begin_command_buffer",
                     "acquire_next_image", "cmd_pipeline_barrier2",
                     "cmd_begin_rendering", "cmd_set_viewport", "cmd_set_scissor",
                     "cmd_bind_pipeline", "cmd_bind_vertex_buffers",
                     "cmd_bind_index_buffer", "cmd_push_constants",
                     "cmd_draw_indexed", "cmd_end_rendering",
                     "cmd_pipeline_barrier2", "end_command_buffer",
                     "queue_submit2", "queue_present" >>
            /\ \A i \in DOMAIN ops : ops[i].ok
            /\ ops[3].flags = "ONE_TIME_SUBMIT"
            /\ ops[5].new_layout = "COLOR_ATTACHMENT_OPTIMAL"
            /\ ops[15].old_layout = "COLOR_ATTACHMENT_OPTIMAL"
            /\ ops[15].new_layout = "PRESENT_SRC_KHR"
            /\ frame_idx = (frame + 1) % 3)
    /\ [][\A s \in Slots :
            SlotState(s)' # SlotState(s) =>
                << SlotState(s), SlotState(s)' >> \in
                    { << "Idle", "Recording" >>, << "Recording", "Submitted" >>,
                      << "Submitted", "Idle" >> }]_vars

\* C22 witness: slot 0 completed a tick for the second time, after its
\* first submission retired.
C22_Witness ==
    /\ TickOver /\ result = "Ok" /\ frame = 0
    /\ \A s \in Slots : cmd[s] \in { "pending", "invalid" }
    /\ cmd[0] = "pending" /\ cmd[1] = "invalid"

\* C23: a render tick that returned an error leaves the application
\* running: the error is not fatal, the event loop goes on to later ticks.
C23_ErrorKeepsRunning ==
    [][(app = "running" /\ TickOver /\ result = "Err") => app' = "running"]_vars

\* The required instance extensions the loader does not offer.
MissingInstanceExtensions(a) ==
    ({ "VK_EXT_debug_utils" } \cup Range(a.surface_exts)) \ a.available

\* The required validation layers the loader does not offer (builds with
\* validation only).
MissingValidationLayers(a) ==
    IF a.validation /\ ~a.layer_available THEN { "VK_LAYER_KHRONOS_validation" } ELSE {}

C25_FenceWillSignal ==
    pc = "idle" => (fence[frame_idx] \/ frame_idx \in Range(gpu))

\* C26: no semaphore of a slot is handed to acquire or submit for signaling
\* while an earlier signal on it has not been consumed by a wait.
C26_SemaphoresAlternate ==
    \A s \in Slots :
        sem[s].swap_acquired # "resignaled" /\ sem[s].render_complete # "resignaled"

\* The calls of the running tick that carry an image: the acquire, the two
\* layout transitions, the start of rendering.
OpsNamed(name) == { i \in DOMAIN ops : ops[i].op = name }

C28_FrameIdxInRange ==
    /\ Cardinality(DOMAIN frames) = FRAMES_IN_FLIGHT
    /\ DOMAIN frames = 0 .. (FRAMES_IN_FLIGHT - 1)
    /\ frame_idx \in 0 .. (FRAMES_IN_FLIGHT - 1)
    /\ frame_idx \in DOMAIN frames
    /\ (TickOver /\ result = "Err") => ops # << >>

\* The counter wrapped from the last slot to the first.
C28_Witness ==
    /\ TickOver
    /\ result = "Ok"
    /\ frame = FRAMES_IN_FLIGHT - 1
    /\ frame_idx = 0

\* C29: when build returns, both shader modules are destroyed; after a
\* failed build no object it created is alive; after a successful one
\* exactly the pipeline and its layout are alive, the Pipeline owns them and
\* its drop destroys both.
C29_NoOrphanObjects ==
    (call.fn = "PipelineBuilder::build" /\ ret # << >>) =>
        LET live == ret[2].created \ ret[2].destroyed
        IN  /\ live \cap {"vertex_shader", "fragment_shader"} = {}
            /\ ret[1].tag = "Err" => live = {}
            /\ ret[1].tag = "Ok" =>
                   /\ live = {"layout", "handle"}
                   /\ ret[2].owned = live
                   /\ live \ Pipeline_drop = {}

\* get_stride(s, a) is the least multiple of a that is >= s, for every
\* element size s >= 1 and power-of-two alignment a >= 1.
C30_StrideLeastMultiple ==
    (call.fn = "get_stride" /\ ret # << >>) =>
        /\ ret[1].tag = "Ok"
        /\ ret[1].val % call.min_align = 0
        /\ ret[1].val >= call.struct_size
        /\ ret[1].val - call.min_align < call.struct_size

\* Bytes [i * stride, i * stride + s) and [j * stride, j * stride + s).
Disjoint(stride, s, i, j) == i * stride + s <= j * stride \/ j * stride + s <= i * stride

\* C30: get_stride(s, a) is the least multiple of a that is >= s; in a
\* UniformBuffer of count elements the bytes [idx * stride, idx * stride + s)
\* that write(idx) and descriptor_info(idx) address lie inside the buffer
\* for idx < count and are pairwise disjoint; write rejects idx >= count.
C30_RangesInsideBuffer ==
    /\ C30_StrideLeastMultiple
    /\ (call.fn \in {"UniformBuffer::write", "UniformBuffer::descriptor_info"}
          /\ ret # << >> /\ ret[1].tag = "Ok") =>
           LET ub == ret[1].val
           IN  /\ call.idx < ub.count =>
                      /\ ret[2].tag = "Ok"
                      /\ ret[2].val.offset = call.idx * ub.stride
                      /\ ret[2].val.range = call.struct_size
                      /\ ret[2].val.offset + ret[2].val.range <= ub.size
               /\ \A i, j \in 0 .. (ub.count - 1) :
                      i # j => Disjoint(ub.stride, call.struct_size, i, j)
               /\ (call.fn = "UniformBuffer::write" /\ call.idx >= ub.count) =>
                      ret[2].tag = "Panic"
====
